---- MODULE Spec2Model ----
(***************************************************************************)
(* Job orchestration of the speech-to-text service: the bounded TaskQueue  *)
(* with its worker loops (app/task_queue.py), the in-memory TaskStore      *)
(* (app/task_store.py), the submission handler (app/main.py :: transcribe) *)
(* and the retrying pipeline (tasks/transcription_task.py ::               *)
(* process_transcription).                                                 *)
(***************************************************************************)
EXTENDS Integers, Sequences, FiniteSets, TLC

(* ------------------------------ bounds --------------------------------- *)
\* number of submissions (each gets a fresh uuid4 task id)
MaxTasks == 2
\* TaskQueue(maxsize, workers): the constructor's arguments range over 1..bound
MaxSize == 2
MaxWorkers == 2
\* max_retries values a caller passes to process_transcription
MaxRetries == 1
\* TaskStore calls made in a row (SpecOps)
MaxCalls == 3
\* calls of TaskQueue.start (SpecQueue)
MaxStarts == 2
\* pieces of the audio whose chunk files are followed
MaxChunks == 3
\* tokens the engine returns for one audio file (SpecWords)
MaxTokens == 4
\* words given to the segmenter (SpecSegments)
MaxWords == 3
\* the chunk length, in units of 60 ms (SpecWords)
ChunkGrains == 21
\* transcription segments and speaker turns given to the aligner (SpecMerge)
MaxSegments == 2
MaxTurns == 3

TaskIds == 1..MaxTasks
WorkerIds == 1..MaxWorkers

(* --------------------------- Optional values --------------------------- *)
\* Python None for Optional[str] / Optional[dict] and for Optional[int]
NONE == "<None>"
NoneInt == -1

(* ------------------------------ constants ------------------------------ *)
PROGRESS_INIT == 10
PROGRESS_AUDIO_EXTRACTED == 20
PROGRESS_TRANSCRIBING == 30
PROGRESS_DIARIZATION == 60
PROGRESS_SAVING == 80
\* default of process_transcription's max_retries parameter
DefaultMaxRetries == 3

\* keyword arguments the submission handler passes to enqueue
HandlerKwargs ==
  {"file_path", "task_id", "language", "enable_diarization", "user_id",
   "num_speakers", "min_speakers", "max_speakers"}

\* parameters process_transcription declares (it has no **kwargs)
PipelineParams ==
  {"file_path", "task_id", "language", "chunk_length_s", "max_retries",
   "retry_delay_s"}

\* parameters of process_transcription without a default value
RequiredParams == {"file_path", "task_id"}

\* keyword arguments of a caller that uses the pipeline's own signature
DirectKwargs == {"file_path", "task_id", "language", "max_retries"}

\* Python's argument binding of func(**kwargs): TypeError unless it holds
Binds(kwargs) == kwargs \subseteq PipelineParams /\ RequiredParams \subseteq kwargs

\* suffix classes of file_path, as the pipeline branches on them
VideoExts == {".mp4"}
FileExts == {".mp4", ".mp3", ".wav"}

\* the shutdown sentinel (None on the queue), in the shape of a job
Sentinel ==
  [func |-> "None", task_id |-> 0, kwargs |-> {}, max_retries |-> 0, file_ext |-> ""]

Job(t, kw, mr, ext) ==
  [func |-> "process_transcription", task_id |-> t, kwargs |-> kw,
   max_retries |-> mr, file_ext |-> ext]

NoJob ==
  [func |-> "", task_id |-> 0, kwargs |-> {}, max_retries |-> 0, file_ext |-> ""]

\* messages of the exceptions an attempt can raise, one per raising step
MsgNotFound == "File not found: file_path"
MsgFfmpeg == "ffmpeg error"
MsgTranscribe == "transcription failed"
MsgDiarize == "diarization failed"
MsgSave == "cannot write result file"
MsgQueueFull == "Queue is full"

VARIABLES
  maxsize,      \* TaskQueue._queue.maxsize
  workers,      \* TaskQueue._workers
  queue,        \* TaskQueue._queue: jobs and sentinels, oldest first
  worker_tasks, \* TaskQueue._worker_tasks: indices of the created worker tasks
  wpc,          \* position of each worker loop: "none", "get", "run", "stopped"
  wjob,         \* the job a worker is executing
  ppc,          \* position of the pipeline run a worker executes
  attempt,      \* loop variable of process_transcription, per worker
  temp_files,   \* temp_files of the running attempt holds the audio path
  stop_pc,      \* position of stop(): "idle", "putting", "gather", "returned"
  sentinels,    \* sentinels stop() has put so far
  req,          \* position / outcome of each submission
  tasks,        \* TaskStore._tasks: task_id -> TaskState
  upload,       \* the uploaded file of a task exists on disk
  audio,        \* the extracted / converted audio file of a task exists
  result_file,  \* the result JSON of a task: "none", "partial", "complete"
  stub,         \* the persistence stub row of a task exists
  \* history of the run, read by the properties only
  accepted,     \* task ids in the order their enqueue returned True
  started,      \* task ids in the order workers took their jobs
  caught,       \* task ids whose job raised into the worker loop's handler
  consumed,     \* per worker, the sentinels it consumed
  attempts,     \* per task, the attempts begun (entries into `processing`)
  lastExc,      \* per task, the message of the exception the run handled last
  delays,       \* per task, the retry delays taken
  returned,     \* task ids whose pipeline call returned normally
  ahead,        \* accepted task ids enqueued before stop() put its last sentinel
  \* one update call and one status poll, field by field (SpecStore)
  lock,         \* TaskStore._lock: "free" or "update"
  wr_pc,        \* position of the pipeline thread inside update
  wr_args,      \* arguments of the update call in progress
  wr_i,         \* store calls the pipeline run has completed
  rd_pc,        \* position of get_status
  rd,           \* the fields get_status has read for its response
  committed,    \* <<status, progress, step>> as left by whole store calls
  \* the TaskStore called method by method (SpecOps)
  api,          \* the last call: method, task_id, arguments, returned value
  stamps,       \* created_at and updated_at of each record
  now,          \* time.time(), counted in calls
  \* one call of transcription_service.transcribe (SpecWords, SpecSegments)
  asr,          \* the audio: its duration, the chunk length, what the engine
                \* recognizes in each piece
  tr_raw_text,  \* raw_text of transcribe
  tr_duration,  \* duration of transcribe, in milliseconds
  tr_words,     \* words of transcribe: the Word list
  tr_segments,  \* segments of transcribe: the Segment list
  tr_chunks,    \* the pieces transcribe has exported, each with its start_ms
                \* and end_ms
  tpc,          \* position of transcribe: "idle", "recognize", "segment", "done"
  \* one call of diarization_service.merge_with_transcription (SpecMerge)
  mg_segments,  \* transcription_segments, the first argument
  mg_speakers,  \* speaker_segments, the second argument
  mg_merged,    \* the list returned
  mpc,          \* position of the call: "idle", "merge", "done"
  \* the TaskQueue started and stopped more than once (SpecQueue)
  starts,       \* calls of start() made
  \* the chunk files of one transcribe call (SpecChunks)
  cpc,          \* position: "idle", "try", "loop", "export", "recognize",
                \* "finally", "returned", "raised"
  chunk_index,  \* chunk_index of the loop over the pieces
  temp_paths,   \* temp_paths: the pieces whose path has been appended
  chunk_files,  \* the pieces whose file is on disk
  chunk_exc,    \* an exception raised in the try block is on its way out
  path_i        \* paths the finally clause has gone through

vars ==
  <<maxsize, workers, queue, worker_tasks, wpc, wjob, ppc, attempt, temp_files,
    stop_pc, sentinels, req, tasks, upload, audio, result_file, stub,
    accepted, started, caught, consumed, attempts, lastExc, delays,
    returned, ahead, lock, wr_pc, wr_args, wr_i, rd_pc, rd, committed,
    api, stamps, now, asr, tr_raw_text, tr_duration, tr_words, tr_segments,
    tr_chunks, tpc, mg_segments, mg_speakers, mg_merged, mpc, starts,
    cpc, chunk_index, temp_paths, chunk_files, chunk_exc, path_i>>

\* the variables of one transcribe call
wordVars == <<asr, tr_raw_text, tr_duration, tr_words, tr_segments, tr_chunks, tpc>>

\* the variables of one merge_with_transcription call
mergeVars == <<mg_segments, mg_speakers, mg_merged, mpc>>

\* the variables of the chunk files of one transcribe call
chunkVars == <<cpc, chunk_index, temp_paths, chunk_files, chunk_exc, path_i>>

\* what no action of Spec changes: the constructor's arguments, the
\* field-level view of one update call and one status poll (SpecStore), the
\* method-level view of the store with its timestamps (SpecOps), and the
\* transcribe call and the merge_with_transcription call taken alone
\* (SpecWords, SpecSegments, SpecMerge, SpecChunks)
fixedVars ==
  <<maxsize, workers, lock, wr_pc, wr_args, wr_i, rd_pc, rd, committed,
    api, stamps, now, wordVars, mergeVars, starts, chunkVars>>
histVars ==
  <<accepted, started, caught, consumed, attempts, lastExc, delays, returned, ahead>>

(* ------------------------------ TaskStore ------------------------------ *)
TaskState(status) ==
  [status |-> status, progress |-> 0, step |-> "", result |-> NONE, error |-> NONE]

create(store, task_id) ==
  [x \in DOMAIN store \cup {task_id} |->
     IF x = task_id THEN TaskState("pending") ELSE store[x]]

get(store, task_id) ==
  IF task_id \in DOMAIN store THEN store[task_id] ELSE NONE

\* update that tests `if progress:` and resets a progress it was not given
update_resets(store, task_id, status, progress, step, result, error) ==
  IF task_id \notin DOMAIN store THEN store
  ELSE [store EXCEPT ![task_id] =
          [status   |-> IF status # NONE THEN status ELSE @.status,
           progress |-> IF progress # NoneInt THEN progress ELSE 0,
           step     |-> IF step # NONE THEN step ELSE @.step,
           result   |-> IF result # NONE THEN result ELSE @.result,
           error    |-> IF error # NONE THEN error ELSE @.error]]

update(store, task_id, status, progress, step, result, error) ==
  IF task_id \notin DOMAIN store THEN store
  ELSE [store EXCEPT ![task_id] =
          [status   |-> IF status # NONE THEN status ELSE @.status,
           progress |-> IF progress # NoneInt THEN progress ELSE @.progress,
           step     |-> IF step # NONE THEN step ELSE @.step,
           result   |-> IF result # NONE THEN result ELSE @.result,
           error    |-> IF error # NONE THEN error ELSE @.error]]

set_result(store, task_id, result) ==
  update(store, task_id, "completed", 100, "Completed", result, NONE)

\* set_error that also passes progress=0
set_error_resets(store, task_id, error) ==
  update(store, task_id, "failed", 0, "Failed", NONE, error)

set_error(store, task_id, error) ==
  update(store, task_id, "failed", NoneInt, "Failed", NONE, error)

(* ----------------------------- persistence ----------------------------- *)
\* rows of public.parakeet, per task_id: the program inserts rows with
\* create_transcription_stub only (task_id and user_id set, every other
\* column NULL) and removes them with delete_transcription
NoRow == [task_id |-> 0, processing_time |-> NONE]

fetch_transcription(rows, task_id) ==
  IF rows[task_id] THEN [task_id |-> task_id, processing_time |-> NONE] ELSE NoRow

\* the value update_transcription returns: cur.rowcount > 0
update_transcription(rows, task_id) == rows[task_id]

_get_completed_row(rows, task_id) ==
  LET row == fetch_transcription(rows, task_id)
  IN IF row = NoRow \/ row.processing_time = NONE THEN NoRow ELSE row

\* the answer of GET /status/{task_id}; an HTTPException raised inside the
\* handler's try block is caught by its `except Exception` and becomes 500
get_status(store, rows, task_id) ==
  LET task_state == get(store, task_id)
      known == task_id \in DOMAIN store
  IN IF known /\ task_state.status \in {"pending", "processing"}
       THEN [code |-> 200, status |-> task_state.status]
     ELSE IF known /\ task_state.status = "failed"
       THEN [code |-> 200, status |-> "failed"]
     ELSE IF _get_completed_row(rows, task_id) = NoRow
       THEN [code |-> 500, status |-> "Failed to get task status"]
     ELSE [code |-> 200, status |-> "completed"]

(* ------------------------------ TaskQueue ------------------------------ *)
full(q, size) == Len(q) >= size

\* enqueue with the capacity test off by one
enqueue_overfull(q, size, job) ==
  IF Len(q) > size THEN <<FALSE, q>> ELSE <<TRUE, Append(q, job)>>

\* enqueue that puts the job at the head of the queue
enqueue_front(q, size, job) ==
  IF full(q, size) THEN <<FALSE, q>> ELSE <<TRUE, <<job>> \o q>>

\* put_nowait inside enqueue: <<returned value, queue afterwards>>
enqueue(q, size, job) ==
  IF full(q, size) THEN <<FALSE, q>> ELSE <<TRUE, Append(q, job)>>

Min(a, b) == IF a < b THEN a ELSE b

\* k copies of the sentinel appended
PutSentinels(q, k) == q \o [i \in 1..k |-> Sentinel]

LiveWorkers == {w \in WorkerIds : wpc[w] \in {"get", "run"}}

\* startup_tasks has stored the queue in app.state
AppReady == worker_tasks # {} \/ stop_pc # "idle"

(* ------------------------------- Init ---------------------------------- *)
Args(status, progress, step, result, error) ==
  [status |-> status, progress |-> progress, step |-> step, result |-> result,
   error |-> error]

NoArgs == Args(NONE, NoneInt, NONE, NONE, NONE)
NoRead == [status |-> NONE, progress |-> NoneInt, step |-> NONE]
NoCall == [op |-> "", task_id |-> 0, args |-> NoArgs, ret |-> NONE]
NoAsr == [duration |-> 0, chunk_length_ms |-> 0, results |-> <<>>]

\* no transcribe call is looked at
NoTranscribe ==
  /\ asr = NoAsr
  /\ tr_raw_text = <<>>
  /\ tr_duration = 0
  /\ tr_words = <<>>
  /\ tr_segments = <<>>
  /\ tr_chunks = <<>>
  /\ tpc = "idle"

\* no merge_with_transcription call is looked at
NoMerge ==
  /\ mg_segments = <<>>
  /\ mg_speakers = <<>>
  /\ mg_merged = <<>>
  /\ mpc = "idle"

\* no chunk file of a transcribe call is looked at
NoChunks ==
  /\ cpc = "idle"
  /\ chunk_index = 0
  /\ temp_paths = <<>>
  /\ chunk_files = {}
  /\ chunk_exc = FALSE
  /\ path_i = 0

NoStamps == [t \in {} |-> [created_at |-> 0, updated_at |-> 0]]

Init ==
  /\ lock = "free"
  /\ wr_pc = "idle"
  /\ wr_args = NoArgs
  /\ wr_i = 0
  /\ rd_pc = "idle"
  /\ rd = NoRead
  /\ committed = {}
  /\ api = NoCall
  /\ stamps = NoStamps
  /\ now = 0
  /\ NoTranscribe
  /\ NoMerge
  /\ NoChunks
  /\ starts = 0
  /\ maxsize \in 1..MaxSize
  /\ workers \in 1..MaxWorkers
  /\ queue = <<>>
  /\ worker_tasks = {}
  /\ wpc = [w \in WorkerIds |-> "none"]
  /\ wjob = [w \in WorkerIds |-> NoJob]
  /\ ppc = [w \in WorkerIds |-> "-"]
  /\ attempt = [w \in WorkerIds |-> 0]
  /\ temp_files = [w \in WorkerIds |-> FALSE]
  /\ stop_pc = "idle"
  /\ sentinels = 0
  /\ req = [t \in TaskIds |-> "new"]
  /\ tasks = [t \in {} |-> TaskState("pending")]
  /\ upload = [t \in TaskIds |-> FALSE]
  /\ audio = [t \in TaskIds |-> FALSE]
  /\ result_file = [t \in TaskIds |-> "none"]
  /\ stub = [t \in TaskIds |-> FALSE]
  /\ accepted = <<>>
  /\ started = <<>>
  /\ caught = {}
  /\ consumed = [w \in WorkerIds |-> 0]
  /\ attempts = [t \in TaskIds |-> 0]
  /\ lastExc = [t \in TaskIds |-> NONE]
  /\ delays = [t \in TaskIds |-> 0]
  /\ returned = {}
  /\ ahead = {}

(* --------------------------- application start ------------------------- *)
\* TaskQueue.start, called once by startup_tasks
start ==
  /\ worker_tasks = {}
  /\ stop_pc = "idle"
  /\ worker_tasks' = 1..workers
  /\ wpc' = [w \in WorkerIds |-> IF w <= workers THEN "get" ELSE "none"]
  /\ UNCHANGED <<fixedVars, queue, wjob, ppc, attempt, temp_files, stop_pc,
                 sentinels, req, tasks, upload, audio, result_file, stub, histVars>>

(* ------------------------------ submission ----------------------------- *)
\* task ids are fresh uuids: submissions take the ids in increasing order
IsNext(t) == req[t] = "new" /\ \A u \in TaskIds : u < t => req[u] # "new"

\* Submit that forgets to delete the stub row when enqueue returns False
Submit_keeps_stub(t, kw, mr, ext, exists, row, who) ==
  LET r == enqueue(queue, maxsize, Job(t, kw, mr, ext))
      st == update(create(tasks, t), t, "pending", 0, "Queued", NONE, NONE)
  IN /\ queue' = r[2]
     /\ stub' = [stub EXCEPT ![t] = row]
     /\ IF r[1]
          THEN /\ req' = [req EXCEPT ![t] = who \o "_accepted"]
               /\ tasks' = st
               /\ upload' = [upload EXCEPT ![t] = exists]
               /\ accepted' = Append(accepted, t)
               /\ ahead' = IF sentinels < workers THEN ahead \cup {t} ELSE ahead
          ELSE /\ req' = [req EXCEPT ![t] = who \o "_rejected"]
               /\ tasks' = set_error(st, t, MsgQueueFull)
               /\ upload' = [upload EXCEPT ![t] = FALSE]
               /\ UNCHANGED <<accepted, ahead>>
     /\ UNCHANGED <<fixedVars, worker_tasks, wpc, wjob, ppc, attempt, temp_files,
                    stop_pc, sentinels, audio, result_file, started, caught,
                    consumed, attempts, lastExc, delays, returned>>

\* Submit that does not mark the refused task: its record stays pending
Submit_leaves_pending(t, kw, mr, ext, exists, row, who) ==
  LET r == enqueue(queue, maxsize, Job(t, kw, mr, ext))
      st == update(create(tasks, t), t, "pending", 0, "Queued", NONE, NONE)
  IN /\ queue' = r[2]
     /\ tasks' = st
     /\ IF r[1]
          THEN /\ req' = [req EXCEPT ![t] = who \o "_accepted"]
               /\ upload' = [upload EXCEPT ![t] = exists]
               /\ stub' = [stub EXCEPT ![t] = row]
               /\ accepted' = Append(accepted, t)
               /\ ahead' = IF sentinels < workers THEN ahead \cup {t} ELSE ahead
          ELSE /\ req' = [req EXCEPT ![t] = who \o "_rejected"]
               /\ upload' = [upload EXCEPT ![t] = FALSE]
               /\ stub' = [stub EXCEPT ![t] = FALSE]
               /\ UNCHANGED <<accepted, ahead>>
     /\ UNCHANGED <<fixedVars, worker_tasks, wpc, wjob, ppc, attempt, temp_files,
                    stop_pc, sentinels, audio, result_file, started, caught,
                    consumed, attempts, lastExc, delays, returned>>

\* the handler from task_store.create to its return: the TaskState is
\* created and set to pending/Queued, the stub row is written (row), the job
\* is enqueued; when enqueue returns False the file and the stub are removed
\* and the TaskState is set to failed
Submit(t, kw, mr, ext, exists, row, who) ==
  LET r == enqueue(queue, maxsize, Job(t, kw, mr, ext))
      st == update(create(tasks, t), t, "pending", 0, "Queued", NONE, NONE)
  IN /\ queue' = r[2]
     /\ IF r[1]
          THEN /\ req' = [req EXCEPT ![t] = who \o "_accepted"]
               /\ tasks' = st
               /\ upload' = [upload EXCEPT ![t] = exists]
               /\ stub' = [stub EXCEPT ![t] = row]
               /\ accepted' = Append(accepted, t)
               /\ ahead' = IF sentinels < workers THEN ahead \cup {t} ELSE ahead
          ELSE /\ req' = [req EXCEPT ![t] = who \o "_rejected"]
               /\ tasks' = set_error(st, t, MsgQueueFull)
               /\ upload' = [upload EXCEPT ![t] = FALSE]
               /\ stub' = [stub EXCEPT ![t] = FALSE]
               /\ UNCHANGED <<accepted, ahead>>
     /\ UNCHANGED <<fixedVars, worker_tasks, wpc, wjob, ppc, attempt, temp_files,
                    stop_pc, sentinels, audio, result_file, started, caught,
                    consumed, attempts, lastExc, delays, returned>>

\* transcribe up to the first await: the pre-flight full() check
transcribe_begin(t) ==
  /\ AppReady
  /\ IsNext(t)
  /\ req' = [req EXCEPT ![t] = IF full(queue, maxsize) THEN "rejected_full" ELSE "saving"]
  /\ UNCHANGED <<fixedVars, queue, worker_tasks, wpc, wjob, ppc, attempt, temp_files,
                 stop_pc, sentinels, tasks, upload, audio, result_file, stub, histVars>>

\* _save_upload raises: validate_file_size or validate_file_type rejects
transcribe_invalid(t) ==
  /\ req[t] = "saving"
  /\ req' = [req EXCEPT ![t] = "rejected_invalid"]
  /\ UNCHANGED <<fixedVars, queue, worker_tasks, wpc, wjob, ppc, attempt, temp_files,
                 stop_pc, sentinels, tasks, upload, audio, result_file, stub, histVars>>

\* transcribe after _save_upload returned: the file is on disk, the job is
\* enqueued with the handler's keyword arguments (max_retries is not passed)
transcribe_enqueue(t) ==
  /\ req[t] = "saving"
  /\ \E ext \in FileExts : Submit(t, HandlerKwargs, DefaultMaxRetries, ext, TRUE, TRUE, "handler")

\* what a caller of the pipeline may find: a file of each suffix class
\* with its row, a file without a row, a missing file (the pipeline raises
\* before it looks at the suffix, and never reads the row)
DirectCalls ==
  {[ext |-> e, exists |-> TRUE, row |-> TRUE] : e \in FileExts}
    \cup {[ext |-> ".wav", exists |-> TRUE, row |-> FALSE],
          [ext |-> ".mp3", exists |-> FALSE, row |-> TRUE]}

\* a caller that submits the pipeline with the parameters it declares; the
\* file at file_path may be missing, and so may the row of task_id in the
\* persistence store
pipeline_enqueue(t) ==
  /\ AppReady
  /\ IsNext(t)
  /\ \E mr \in 0..MaxRetries, c \in DirectCalls :
        Submit(t, DirectKwargs, mr, c.ext, c.exists, c.row, "direct")

(* ------------------------------ worker loop ---------------------------- *)
\* worker_get that reads a job and leaves it on the queue
worker_get_peek(w) ==
  /\ wpc[w] = "get"
  /\ queue # <<>>
  /\ IF Head(queue) = Sentinel
       THEN /\ queue' = Tail(queue)
            /\ wpc' = [wpc EXCEPT ![w] = "stopped"]
            /\ consumed' = [consumed EXCEPT ![w] = @ + 1]
            /\ UNCHANGED <<wjob, ppc, started>>
       ELSE /\ queue' = queue
            /\ wpc' = [wpc EXCEPT ![w] = "run"]
            /\ wjob' = [wjob EXCEPT ![w] = Head(queue)]
            /\ ppc' = [ppc EXCEPT ![w] = "call"]
            /\ started' = Append(started, Head(queue).task_id)
            /\ UNCHANGED consumed
  /\ UNCHANGED <<fixedVars, worker_tasks, attempt, temp_files, stop_pc, sentinels,
                 req, tasks, upload, audio, result_file, stub, accepted, caught,
                 attempts, lastExc, delays, returned, ahead>>

\* worker_get that goes back to the queue after a sentinel
worker_get_past_sentinel(w) ==
  /\ wpc[w] = "get"
  /\ queue # <<>>
  /\ queue' = Tail(queue)
  /\ IF Head(queue) = Sentinel
       THEN UNCHANGED <<wpc, consumed, wjob, ppc, started>>
       ELSE /\ wpc' = [wpc EXCEPT ![w] = "run"]
            /\ wjob' = [wjob EXCEPT ![w] = Head(queue)]
            /\ ppc' = [ppc EXCEPT ![w] = "call"]
            /\ started' = Append(started, Head(queue).task_id)
            /\ UNCHANGED consumed
  /\ UNCHANGED <<fixedVars, worker_tasks, attempt, temp_files, stop_pc, sentinels,
                 req, tasks, upload, audio, result_file, stub, accepted, caught,
                 attempts, lastExc, delays, returned, ahead>>

\* await self._queue.get(): a sentinel ends the loop, a job is handed to a
\* thread (asyncio.to_thread)
worker_get(w) ==
  /\ wpc[w] = "get"
  /\ queue # <<>>
  /\ queue' = Tail(queue)
  /\ IF Head(queue) = Sentinel
       THEN /\ wpc' = [wpc EXCEPT ![w] = "stopped"]
            /\ consumed' = [consumed EXCEPT ![w] = @ + 1]
            /\ UNCHANGED <<wjob, ppc, started>>
       ELSE /\ wpc' = [wpc EXCEPT ![w] = "run"]
            /\ wjob' = [wjob EXCEPT ![w] = Head(queue)]
            /\ ppc' = [ppc EXCEPT ![w] = "call"]
            /\ started' = Append(started, Head(queue).task_id)
            /\ UNCHANGED consumed
  /\ UNCHANGED <<fixedVars, worker_tasks, attempt, temp_files, stop_pc, sentinels,
                 req, tasks, upload, audio, result_file, stub, accepted, caught,
                 attempts, lastExc, delays, returned, ahead>>

\* the worker after the job's thread ended: task_done and back to get
WorkerContinues(w) ==
  /\ wpc' = [wpc EXCEPT ![w] = "get"]
  /\ wjob' = [wjob EXCEPT ![w] = NoJob]
  /\ ppc' = [ppc EXCEPT ![w] = "-"]
  /\ attempt' = [attempt EXCEPT ![w] = 0]

\* call whose TypeError is not caught by the worker loop: the loop ends
call_uncaught(w) ==
  /\ wpc[w] = "run"
  /\ ppc[w] = "call"
  /\ IF Binds(wjob[w].kwargs)
       THEN /\ ppc' = [ppc EXCEPT ![w] = "begin"]
            /\ attempt' = [attempt EXCEPT ![w] = 0]
            /\ UNCHANGED <<wpc, wjob, caught>>
       ELSE /\ caught' = caught \cup {wjob[w].task_id}
            /\ wpc' = [wpc EXCEPT ![w] = "stopped"]
            /\ wjob' = [wjob EXCEPT ![w] = NoJob]
            /\ ppc' = [ppc EXCEPT ![w] = "-"]
            /\ attempt' = [attempt EXCEPT ![w] = 0]
  /\ UNCHANGED <<fixedVars, queue, worker_tasks, temp_files, stop_pc, sentinels,
                 req, tasks, upload, audio, result_file, stub, accepted, started,
                 consumed, attempts, lastExc, delays, returned, ahead>>

\* func(**kwargs) in the thread: binding the keyword arguments to the
\* parameters of process_transcription. A TypeError is raised before the
\* function body runs and is caught by the worker loop's except clause.
call(w) ==
  /\ wpc[w] = "run"
  /\ ppc[w] = "call"
  /\ IF Binds(wjob[w].kwargs)
       THEN /\ ppc' = [ppc EXCEPT ![w] = "begin"]
            /\ attempt' = [attempt EXCEPT ![w] = 0]
            /\ UNCHANGED <<wpc, wjob, caught>>
       ELSE /\ caught' = caught \cup {wjob[w].task_id}
            /\ WorkerContinues(w)
  /\ UNCHANGED <<fixedVars, queue, worker_tasks, temp_files, stop_pc, sentinels,
                 req, tasks, upload, audio, result_file, stub, accepted, started,
                 consumed, attempts, lastExc, delays, returned, ahead>>

(* ------------------------- process_transcription ----------------------- *)
RetryLabel(k, m) ==
  "Retrying transcription (" \o ToString(k) \o "/" \o ToString(m) \o ")"

\* return of process_transcription: the worker's finally clause runs
Return(w) ==
  /\ returned' = returned \cup {wjob[w].task_id}
  /\ WorkerContinues(w)

\* Fail with the retry test off by one: one retry too many
Fail_extra_retry(w, msg, audioNow) ==
  LET t == wjob[w].task_id
      mr == wjob[w].max_retries
  IN /\ lastExc' = [lastExc EXCEPT ![t] = msg]
     /\ audio' = [audio EXCEPT ![t] = IF temp_files[w] THEN FALSE ELSE audioNow]
     /\ temp_files' = [temp_files EXCEPT ![w] = FALSE]
     /\ IF attempt[w] <= mr
          THEN /\ tasks' = update(tasks, t, "processing", NoneInt,
                                  RetryLabel(attempt[w] + 1, mr), NONE, NONE)
               /\ ppc' = [ppc EXCEPT ![w] = "sleep"]
               /\ UNCHANGED <<wpc, wjob, attempt, upload, returned>>
          ELSE /\ upload' = [upload EXCEPT ![t] = FALSE]
               /\ tasks' = set_error(tasks, t, msg)
               /\ Return(w)

\* Fail that records the failure in the store before it decides to retry
Fail_marks_failed(w, msg, audioNow) ==
  LET t == wjob[w].task_id
      mr == wjob[w].max_retries
  IN /\ lastExc' = [lastExc EXCEPT ![t] = msg]
     /\ audio' = [audio EXCEPT ![t] = IF temp_files[w] THEN FALSE ELSE audioNow]
     /\ temp_files' = [temp_files EXCEPT ![w] = FALSE]
     /\ tasks' = set_error(tasks, t, msg)
     /\ IF attempt[w] < mr
          THEN /\ ppc' = [ppc EXCEPT ![w] = "sleep"]
               /\ UNCHANGED <<wpc, wjob, attempt, upload, returned>>
          ELSE /\ upload' = [upload EXCEPT ![t] = FALSE]
               /\ Return(w)

\* Fail that leaves the uploaded file in place when the task finally fails
Fail_keeps_upload(w, msg, audioNow) ==
  LET t == wjob[w].task_id
      mr == wjob[w].max_retries
  IN /\ lastExc' = [lastExc EXCEPT ![t] = msg]
     /\ audio' = [audio EXCEPT ![t] = IF temp_files[w] THEN FALSE ELSE audioNow]
     /\ temp_files' = [temp_files EXCEPT ![w] = FALSE]
     /\ IF attempt[w] < mr
          THEN /\ tasks' = update(tasks, t, "processing", NoneInt,
                                  RetryLabel(attempt[w] + 1, mr), NONE, NONE)
               /\ ppc' = [ppc EXCEPT ![w] = "sleep"]
               /\ UNCHANGED <<wpc, wjob, attempt, upload, returned>>
          ELSE /\ UNCHANGED upload
               /\ tasks' = set_error(tasks, t, msg)
               /\ Return(w)

\* Fail whose retry label comes with progress 0
Fail_resets_progress(w, msg, audioNow) ==
  LET t == wjob[w].task_id
      mr == wjob[w].max_retries
  IN /\ lastExc' = [lastExc EXCEPT ![t] = msg]
     /\ audio' = [audio EXCEPT ![t] = IF temp_files[w] THEN FALSE ELSE audioNow]
     /\ temp_files' = [temp_files EXCEPT ![w] = FALSE]
     /\ IF attempt[w] < mr
          THEN /\ tasks' = update(tasks, t, "processing", 0,
                                  RetryLabel(attempt[w] + 1, mr), NONE, NONE)
               /\ ppc' = [ppc EXCEPT ![w] = "sleep"]
               /\ UNCHANGED <<wpc, wjob, attempt, upload, returned>>
          ELSE /\ upload' = [upload EXCEPT ![t] = FALSE]
               /\ tasks' = set_error(tasks, t, msg)
               /\ Return(w)

\* the except clause of an attempt that raised msg while the audio file was
\* in state audioNow: the temp files are removed, then the task is either
\* relabelled for a retry (the sleep follows) or set to failed
Fail(w, msg, audioNow) ==
  LET t == wjob[w].task_id
      mr == wjob[w].max_retries
  IN /\ lastExc' = [lastExc EXCEPT ![t] = msg]
     /\ audio' = [audio EXCEPT ![t] = IF temp_files[w] THEN FALSE ELSE audioNow]
     /\ temp_files' = [temp_files EXCEPT ![w] = FALSE]
     /\ IF attempt[w] < mr
          THEN /\ tasks' = update(tasks, t, "processing", NoneInt,
                                  RetryLabel(attempt[w] + 1, mr), NONE, NONE)
               /\ ppc' = [ppc EXCEPT ![w] = "sleep"]
               /\ UNCHANGED <<wpc, wjob, attempt, upload, returned>>
          ELSE /\ upload' = [upload EXCEPT ![t] = FALSE]
               /\ tasks' = set_error(tasks, t, msg)
               /\ Return(w)

\* what no step of the pipeline touches
PipelineFrame ==
  UNCHANGED <<fixedVars, queue, worker_tasks, stop_pc, sentinels, req, stub,
              accepted, started, caught, consumed, ahead>>

\* start of an attempt: status processing, progress 10
attempt_begin(w) ==
  /\ wpc[w] = "run"
  /\ ppc[w] = "begin"
  /\ tasks' = update(tasks, wjob[w].task_id, "processing", PROGRESS_INIT,
                     "Preparing file", NONE, NONE)
  /\ attempts' = [attempts EXCEPT ![wjob[w].task_id] = @ + 1]
  /\ temp_files' = [temp_files EXCEPT ![w] = FALSE]
  /\ ppc' = [ppc EXCEPT ![w] = "prepare"]
  /\ PipelineFrame
  /\ UNCHANGED <<wpc, wjob, attempt, upload, audio, result_file, lastExc, delays,
                 returned>>

\* os.path.exists(file_path), then the branch on the suffix
check_file(w) ==
  LET t == wjob[w].task_id
      ext == wjob[w].file_ext
  IN /\ wpc[w] = "run"
     /\ ppc[w] = "prepare"
     /\ PipelineFrame
     /\ UNCHANGED <<result_file, attempts, delays>>
     /\ IF ~upload[t]
          THEN Fail(w, MsgNotFound, audio[t])
          ELSE /\ tasks' =
                    IF ext \in VideoExts
                      THEN update(tasks, t, "processing", PROGRESS_AUDIO_EXTRACTED,
                                  "Extracting audio from video", NONE, NONE)
                    ELSE IF ext # ".wav"
                      THEN update(tasks, t, "processing", PROGRESS_AUDIO_EXTRACTED,
                                  "Converting audio format", NONE, NONE)
                    ELSE update(tasks, t, "processing", PROGRESS_TRANSCRIBING,
                                "Transcribing audio", NONE, NONE)
               /\ ppc' = [ppc EXCEPT ![w] = IF ext = ".wav" THEN "transcribe" ELSE "ffmpeg"]
               /\ UNCHANGED <<wpc, wjob, attempt, temp_files, upload, audio, lastExc,
                              returned>>

\* extract_audio / convert_to_wav returned: the audio file is written and
\* appended to temp_files; progress 30
ffmpeg_ok(w) ==
  LET t == wjob[w].task_id
  IN /\ wpc[w] = "run"
     /\ ppc[w] = "ffmpeg"
     /\ audio' = [audio EXCEPT ![t] = TRUE]
     /\ temp_files' = [temp_files EXCEPT ![w] = TRUE]
     /\ tasks' = update(tasks, t, "processing", PROGRESS_TRANSCRIBING,
                        "Transcribing audio", NONE, NONE)
     /\ ppc' = [ppc EXCEPT ![w] = "transcribe"]
     /\ PipelineFrame
     /\ UNCHANGED <<wpc, wjob, attempt, upload, result_file, attempts, lastExc,
                    delays, returned>>

\* extract_audio / convert_to_wav raised: ffmpeg may have left an output
\* file behind, and the path is not in temp_files yet
ffmpeg_raise(w) ==
  /\ wpc[w] = "run"
  /\ ppc[w] = "ffmpeg"
  /\ PipelineFrame
  /\ UNCHANGED <<result_file, attempts, delays>>
  /\ \E left \in BOOLEAN : Fail(w, MsgFfmpeg, left \/ audio[wjob[w].task_id])

\* transcribe_ok that reports the saving step at once
transcribe_ok_saving(w) ==
  /\ wpc[w] = "run"
  /\ ppc[w] = "transcribe"
  /\ tasks' = update(tasks, wjob[w].task_id, "processing", PROGRESS_SAVING,
                     "Performing speaker diarization", NONE, NONE)
  /\ ppc' = [ppc EXCEPT ![w] = "diarize"]
  /\ PipelineFrame
  /\ UNCHANGED <<wpc, wjob, attempt, temp_files, upload, audio, result_file,
                 attempts, lastExc, delays, returned>>

\* transcription_service.transcribe returned; progress 60
transcribe_ok(w) ==
  /\ wpc[w] = "run"
  /\ ppc[w] = "transcribe"
  /\ tasks' = update(tasks, wjob[w].task_id, "processing", PROGRESS_DIARIZATION,
                     "Performing speaker diarization", NONE, NONE)
  /\ ppc' = [ppc EXCEPT ![w] = "diarize"]
  /\ PipelineFrame
  /\ UNCHANGED <<wpc, wjob, attempt, temp_files, upload, audio, result_file,
                 attempts, lastExc, delays, returned>>

transcribe_raise(w) ==
  /\ wpc[w] = "run"
  /\ ppc[w] = "transcribe"
  /\ PipelineFrame
  /\ UNCHANGED <<result_file, attempts, delays>>
  /\ Fail(w, MsgTranscribe, audio[wjob[w].task_id])

\* diarize and merge_with_transcription returned; progress 80
diarize_ok(w) ==
  /\ wpc[w] = "run"
  /\ ppc[w] = "diarize"
  /\ tasks' = update(tasks, wjob[w].task_id, "processing", PROGRESS_SAVING,
                     "Saving results", NONE, NONE)
  /\ ppc' = [ppc EXCEPT ![w] = "save"]
  /\ PipelineFrame
  /\ UNCHANGED <<wpc, wjob, attempt, temp_files, upload, audio, result_file,
                 attempts, lastExc, delays, returned>>

diarize_raise(w) ==
  /\ wpc[w] = "run"
  /\ ppc[w] = "diarize"
  /\ PipelineFrame
  /\ UNCHANGED <<result_file, attempts, delays>>
  /\ Fail(w, MsgDiarize, audio[wjob[w].task_id])

\* the result file is written, temp files and the upload are removed,
\* set_result, return
save_ok(w) ==
  LET t == wjob[w].task_id
  IN /\ wpc[w] = "run"
     /\ ppc[w] = "save"
     /\ result_file' = [result_file EXCEPT ![t] = "complete"]
     /\ audio' = [audio EXCEPT ![t] = IF temp_files[w] THEN FALSE ELSE @]
     /\ temp_files' = [temp_files EXCEPT ![w] = FALSE]
     /\ upload' = [upload EXCEPT ![t] = FALSE]
     /\ tasks' = set_result(tasks, t, "result_payload")
     /\ lastExc' = [lastExc EXCEPT ![t] = NONE]
     /\ Return(w)
     /\ PipelineFrame
     /\ UNCHANGED <<attempts, delays>>

\* mkdir, open or json.dump raised: no file, or a partly written one
save_raise(w) ==
  LET t == wjob[w].task_id
  IN /\ wpc[w] = "run"
     /\ ppc[w] = "save"
     /\ \E opened \in BOOLEAN :
          result_file' = [result_file EXCEPT ![t] = IF opened THEN "partial" ELSE @]
     /\ PipelineFrame
     /\ UNCHANGED <<attempts, delays>>
     /\ Fail(w, MsgSave, audio[t])

\* retry_wake that goes on where the failed attempt had got to
retry_wake_resume(w) ==
  /\ wpc[w] = "run"
  /\ ppc[w] = "sleep"
  /\ attempt' = [attempt EXCEPT ![w] = @ + 1]
  /\ delays' = [delays EXCEPT ![wjob[w].task_id] = @ + 1]
  /\ ppc' = [ppc EXCEPT ![w] = "transcribe"]
  /\ PipelineFrame
  /\ UNCHANGED <<wpc, wjob, temp_files, tasks, upload, audio, result_file,
                 attempts, lastExc, returned>>

\* time.sleep(retry_delay_s) is over; continue with the next attempt
retry_wake(w) ==
  /\ wpc[w] = "run"
  /\ ppc[w] = "sleep"
  /\ attempt' = [attempt EXCEPT ![w] = @ + 1]
  /\ delays' = [delays EXCEPT ![wjob[w].task_id] = @ + 1]
  /\ ppc' = [ppc EXCEPT ![w] = "begin"]
  /\ PipelineFrame
  /\ UNCHANGED <<wpc, wjob, temp_files, tasks, upload, audio, result_file,
                 attempts, lastExc, returned>>

(* -------------------------------- stop --------------------------------- *)
\* stop that puts a single sentinel, whatever the number of workers
StopPuts_one ==
  LET k == Min(1 - sentinels, maxsize - Len(queue))
  IN /\ queue' = PutSentinels(queue, k)
     /\ sentinels' = sentinels + k
     /\ stop_pc' = IF sentinels + k = 1 THEN "gather" ELSE "putting"

\* the sentinels stop() can put without waiting: put() only waits while
\* the queue is full
StopPuts ==
  LET k == Min(workers - sentinels, maxsize - Len(queue))
  IN /\ queue' = PutSentinels(queue, k)
     /\ sentinels' = sentinels + k
     /\ stop_pc' = IF sentinels + k = workers THEN "gather" ELSE "putting"

\* stop() called by shutdown_tasks
stop ==
  /\ stop_pc = "idle"
  /\ worker_tasks # {}
  /\ StopPuts
  /\ UNCHANGED <<fixedVars, worker_tasks, wpc, wjob, ppc, attempt, temp_files,
                 req, tasks, upload, audio, result_file, stub, histVars>>

\* a put that waited for room goes on
stop_put ==
  /\ stop_pc = "putting"
  /\ ~full(queue, maxsize)
  /\ StopPuts
  /\ UNCHANGED <<fixedVars, worker_tasks, wpc, wjob, ppc, attempt, temp_files,
                 req, tasks, upload, audio, result_file, stub, histVars>>

\* asyncio.gather returns when every worker task has ended
stop_return ==
  /\ stop_pc = "gather"
  /\ \A w \in worker_tasks : wpc[w] = "stopped"
  /\ worker_tasks' = {}
  /\ stop_pc' = "returned"
  /\ UNCHANGED <<fixedVars, queue, wpc, wjob, ppc, attempt, temp_files, sentinels,
                 req, tasks, upload, audio, result_file, stub, histVars>>

(* ------------------- start called more than once ---------------------- *)
\* the k least of the worker slots in S
FirstOf(S, k) == {w \in S : Cardinality({v \in S : v < w}) < k}

\* what start() leaves alone, whichever way it goes
startFrame ==
  <<maxsize, workers, lock, wr_pc, wr_args, wr_i, rd_pc, rd, committed,
    api, stamps, now, wordVars, mergeVars, chunkVars, queue, wjob, ppc, attempt,
    temp_files, req, tasks, upload, audio, result_file, stub, histVars>>

\* start() without its early return: new loops whatever is running
start_call_always ==
  /\ starts < MaxStarts
  /\ starts' = starts + 1
  /\ LET new == FirstOf(WorkerIds \ LiveWorkers, workers)
     IN /\ worker_tasks' = worker_tasks \cup new
        /\ wpc' = [w \in WorkerIds |-> IF w \in new THEN "get" ELSE wpc[w]]
  /\ UNCHANGED <<stop_pc, sentinels>>
  /\ UNCHANGED startFrame

\* one call of start(), the first one or a later one: it returns at once
\* while _worker_tasks is not empty, and creates self._workers loops
\* otherwise (after stop() has returned, for a stop() that follows, the
\* count of sentinels starts again)
start_call ==
  /\ starts < MaxStarts
  /\ starts' = starts + 1
  /\ IF worker_tasks # {}
       THEN UNCHANGED <<worker_tasks, wpc, stop_pc, sentinels>>
       ELSE LET new == FirstOf(WorkerIds \ LiveWorkers, workers)
            IN /\ worker_tasks' = new
               /\ wpc' = [w \in WorkerIds |-> IF w \in new THEN "get" ELSE wpc[w]]
               /\ stop_pc' = "idle"
               /\ sentinels' = 0
  /\ UNCHANGED startFrame

\* the queue of the application as main.py uses it: the jobs are the
\* handler's submissions
NextQueue ==
  \/ start_call
  \/ \E t \in TaskIds : transcribe_begin(t)
  \/ \E t \in TaskIds : transcribe_invalid(t)
  \/ \E t \in TaskIds : transcribe_enqueue(t)
  \/ \E w \in WorkerIds : worker_get(w)
  \/ \E w \in WorkerIds : call(w)
  \/ stop
  \/ stop_put
  \/ stop_return

SpecQueue == Init /\ [][NextQueue]_vars

(* --------------------- stop() until it returns ------------------------- *)
\* stop() called while _worker_tasks is empty: it returns at once
stop_unstarted ==
  /\ stop_pc = "idle"
  /\ worker_tasks = {}
  /\ stop_pc' = "returned"
  /\ UNCHANGED <<fixedVars, queue, worker_tasks, wpc, wjob, ppc, attempt,
                 temp_files, sentinels, req, tasks, upload, audio, result_file,
                 stub, histVars>>

NextStop ==
  \/ start_call
  \/ \E t \in TaskIds : transcribe_begin(t)
  \/ \E t \in TaskIds : transcribe_invalid(t)
  \/ \E t \in TaskIds : transcribe_enqueue(t)
  \/ \E w \in WorkerIds : worker_get(w)
  \/ \E w \in WorkerIds : call(w)
  \/ stop
  \/ stop_unstarted
  \/ stop_put
  \/ stop_return

\* the event loop runs every coroutine that can go on (a worker loop at
\* its get, stop() at a put that has room or at a gather that is
\* complete), and the thread of a job runs to its end
FairStop ==
  /\ \A w \in WorkerIds : WF_vars(worker_get(w))
  /\ \A w \in WorkerIds : WF_vars(call(w))
  /\ WF_vars(stop_put)
  /\ WF_vars(stop_return)

SpecStop == Init /\ [][NextStop]_vars /\ FairStop

(* ------------------------------ behaviours ----------------------------- *)
Next ==
  \/ start
  \/ \E t \in TaskIds : transcribe_begin(t)
  \/ \E t \in TaskIds : transcribe_invalid(t)
  \/ \E t \in TaskIds : transcribe_enqueue(t)
  \/ \E t \in TaskIds : pipeline_enqueue(t)
  \/ \E w \in WorkerIds : worker_get(w)
  \/ \E w \in WorkerIds : call(w)
  \/ \E w \in WorkerIds : attempt_begin(w)
  \/ \E w \in WorkerIds : check_file(w)
  \/ \E w \in WorkerIds : ffmpeg_ok(w)
  \/ \E w \in WorkerIds : ffmpeg_raise(w)
  \/ \E w \in WorkerIds : transcribe_ok(w)
  \/ \E w \in WorkerIds : transcribe_raise(w)
  \/ \E w \in WorkerIds : diarize_ok(w)
  \/ \E w \in WorkerIds : diarize_raise(w)
  \/ \E w \in WorkerIds : save_ok(w)
  \/ \E w \in WorkerIds : save_raise(w)
  \/ \E w \in WorkerIds : retry_wake(w)
  \/ stop
  \/ stop_put
  \/ stop_return

Spec == Init /\ [][Next]_vars


(* ================= the store, one field at a time ====================== *)
\* The thread of one pipeline run (an .mp3 upload, max_retries = 0) makes
\* its store calls while the event loop serves GET /status for the same
\* task. update assigns the fields one after the other under the lock; get
\* returns the TaskState object itself, and get_status reads its fields
\* after get has released the lock.
StoreTask == CHOOSE t \in TaskIds : \A u \in TaskIds : t <= u

\* the store calls of the run, in program order
PipelineCalls ==
  << Args("processing", PROGRESS_INIT, "Preparing file", NONE, NONE),
     Args("processing", PROGRESS_AUDIO_EXTRACTED, "Converting audio format", NONE, NONE),
     Args("processing", PROGRESS_TRANSCRIBING, "Transcribing audio", NONE, NONE),
     Args("processing", PROGRESS_DIARIZATION, "Performing speaker diarization", NONE, NONE),
     Args("processing", PROGRESS_SAVING, "Saving results", NONE, NONE),
     Args("completed", 100, "Completed", "result_payload", NONE) >>

\* the message of the exception raised after the i-th store call
RaisedAfter ==
  << MsgNotFound, MsgFfmpeg, MsgTranscribe, MsgDiarize, MsgSave >>

\* set_error(task_id, str(exc)) as an update call
ErrorCall(msg) == Args("failed", NoneInt, "Failed", NONE, msg)

RunEnded == Len(PipelineCalls) + 1

\* the store calls the run can make next, i calls made so far
NextCalls(i) ==
  IF i >= Len(PipelineCalls) THEN {}
  ELSE {PipelineCalls[i + 1]} \cup (IF i >= 1 THEN {ErrorCall(RaisedAfter[i])} ELSE {})

Triple(state) == <<state.status, state.progress, state.step>>

\* the store after the handler's create and update(pending, 0, "Queued")
InitStore ==
  /\ maxsize = 1
  /\ workers = 1
  /\ queue = <<>>
  /\ worker_tasks = {}
  /\ wpc = [w \in WorkerIds |-> "none"]
  /\ wjob = [w \in WorkerIds |-> NoJob]
  /\ ppc = [w \in WorkerIds |-> "-"]
  /\ attempt = [w \in WorkerIds |-> 0]
  /\ temp_files = [w \in WorkerIds |-> FALSE]
  /\ stop_pc = "idle"
  /\ sentinels = 0
  /\ req = [t \in TaskIds |-> "new"]
  /\ tasks = update(create([t \in {} |-> TaskState("pending")], StoreTask),
                    StoreTask, "pending", 0, "Queued", NONE, NONE)
  /\ upload = [t \in TaskIds |-> FALSE]
  /\ audio = [t \in TaskIds |-> FALSE]
  /\ result_file = [t \in TaskIds |-> "none"]
  /\ stub = [t \in TaskIds |-> FALSE]
  /\ accepted = <<>>
  /\ started = <<>>
  /\ caught = {}
  /\ consumed = [w \in WorkerIds |-> 0]
  /\ attempts = [t \in TaskIds |-> 0]
  /\ lastExc = [t \in TaskIds |-> NONE]
  /\ delays = [t \in TaskIds |-> 0]
  /\ returned = {}
  /\ ahead = {}
  /\ lock = "free"
  /\ wr_pc = "idle"
  /\ wr_args = NoArgs
  /\ wr_i = 0
  /\ rd_pc = "idle"
  /\ rd = NoRead
  /\ committed = {<<"pending", 0, "Queued">>}
  /\ api = NoCall
  /\ stamps = NoStamps
  /\ now = 0
  /\ NoTranscribe
  /\ NoMerge
  /\ NoChunks
  /\ starts = 0

mainVars ==
  <<maxsize, workers, queue, worker_tasks, wpc, wjob, ppc, attempt, temp_files,
    stop_pc, sentinels, req, upload, audio, result_file, stub, histVars,
    api, stamps, now, wordVars, mergeVars, starts, chunkVars>>

\* update: `with self._lock` entered, the state looked up
update_enter ==
  /\ wr_pc = "idle"
  /\ lock = "free"
  /\ \E a \in NextCalls(wr_i) : wr_args' = a
  /\ lock' = "update"
  /\ wr_pc' = "status"
  /\ UNCHANGED <<mainVars, tasks, wr_i, rd_pc, rd, committed>>

\* if status is not None: state.status = status
update_status ==
  /\ wr_pc = "status"
  /\ tasks' = [tasks EXCEPT ![StoreTask].status =
                 IF wr_args.status # NONE THEN wr_args.status ELSE @]
  /\ wr_pc' = "progress"
  /\ UNCHANGED <<mainVars, lock, wr_args, wr_i, rd_pc, rd, committed>>

\* if progress is not None: state.progress = progress
update_progress ==
  /\ wr_pc = "progress"
  /\ tasks' = [tasks EXCEPT ![StoreTask].progress =
                 IF wr_args.progress # NoneInt THEN wr_args.progress ELSE @]
  /\ wr_pc' = "step"
  /\ UNCHANGED <<mainVars, lock, wr_args, wr_i, rd_pc, rd, committed>>

\* if step is not None: state.step = step
update_step ==
  /\ wr_pc = "step"
  /\ tasks' = [tasks EXCEPT ![StoreTask].step =
                 IF wr_args.step # NONE THEN wr_args.step ELSE @]
  /\ wr_pc' = "rest"
  /\ UNCHANGED <<mainVars, lock, wr_args, wr_i, rd_pc, rd, committed>>

\* result and error assigned, the lock released, update returns
update_exit ==
  /\ wr_pc = "rest"
  /\ tasks' = [tasks EXCEPT ![StoreTask].result =
                              IF wr_args.result # NONE THEN wr_args.result ELSE @,
                            ![StoreTask].error =
                              IF wr_args.error # NONE THEN wr_args.error ELSE @]
  /\ committed' = committed \cup {Triple(tasks'[StoreTask])}
  /\ lock' = "free"
  /\ wr_pc' = "idle"
  /\ wr_i' = IF wr_args.status = "processing" THEN wr_i + 1 ELSE RunEnded
  /\ wr_args' = NoArgs
  /\ UNCHANGED <<mainVars, rd_pc, rd>>

\* get_status: task_state = task_store.get(task_id), under the lock
get_status_get ==
  /\ rd_pc = "idle"
  /\ lock = "free"
  /\ rd_pc' = "branch"
  /\ rd' = NoRead
  /\ UNCHANGED <<mainVars, tasks, lock, wr_pc, wr_args, wr_i, committed>>

\* if task_state.status in {pending, processing}
get_status_branch ==
  /\ rd_pc = "branch"
  /\ rd_pc' = IF tasks[StoreTask].status \in {"pending", "processing"}
                THEN "status" ELSE "other"
  /\ UNCHANGED <<mainVars, tasks, lock, wr_pc, wr_args, wr_i, rd, committed>>

\* 'status': task_state.status
get_status_status ==
  /\ rd_pc = "status"
  /\ rd' = [rd EXCEPT !.status = tasks[StoreTask].status]
  /\ rd_pc' = "progress"
  /\ UNCHANGED <<mainVars, tasks, lock, wr_pc, wr_args, wr_i, committed>>

\* 'progress': task_state.progress
get_status_progress ==
  /\ rd_pc = "progress"
  /\ rd' = [rd EXCEPT !.progress = tasks[StoreTask].progress]
  /\ rd_pc' = "step"
  /\ UNCHANGED <<mainVars, tasks, lock, wr_pc, wr_args, wr_i, committed>>

\* 'step': task_state.step; the response is returned
get_status_step ==
  /\ rd_pc = "step"
  /\ rd' = [rd EXCEPT !.step = tasks[StoreTask].step]
  /\ rd_pc' = "done"
  /\ UNCHANGED <<mainVars, tasks, lock, wr_pc, wr_args, wr_i, committed>>

\* the client polls again
get_status_again ==
  /\ rd_pc \in {"done", "other"}
  /\ rd_pc' = "idle"
  /\ rd' = NoRead
  /\ UNCHANGED <<mainVars, tasks, lock, wr_pc, wr_args, wr_i, committed>>

NextStore ==
  \/ update_enter
  \/ update_status
  \/ update_progress
  \/ update_step
  \/ update_exit
  \/ get_status_get
  \/ get_status_branch
  \/ get_status_status
  \/ get_status_progress
  \/ get_status_step
  \/ get_status_again

SpecStore == InitStore /\ [][NextStore]_vars

(* ================= the store, one method at a time ===================== *)
\* Callers invoke the methods of TaskStore in any order, on task ids that
\* are in the store and on ids that are not; each method runs under the
\* lock, so a call is one step.

\* created_at and updated_at of a new TaskState (default_factory=time.time)
stamp_new(st, task_id, time) ==
  [x \in DOMAIN st \cup {task_id} |->
     IF x = task_id THEN [created_at |-> time, updated_at |-> time] ELSE st[x]]

\* state.updated_at = time.time(), when the record exists
touch(st, task_id, time) ==
  IF task_id \notin DOMAIN st THEN st
  ELSE [st EXCEPT ![task_id].updated_at = time]

\* the arguments callers pass to update: nothing, every field, each field
\* alone (progress 0 included), and status, progress and step together
UpdateArgs ==
  { NoArgs,
    Args("processing", 50, "Working", "payload", "message"),
    Args("processing", NoneInt, NONE, NONE, NONE),
    Args(NONE, 0, NONE, NONE, NONE),
    Args(NONE, NoneInt, "Working", NONE, NONE),
    Args(NONE, NoneInt, NONE, "payload", NONE),
    Args(NONE, NoneInt, NONE, NONE, "message"),
    Args("processing", 50, "Working", NONE, NONE) }

InitOps ==
  /\ maxsize = 1
  /\ workers = 1
  /\ queue = <<>>
  /\ worker_tasks = {}
  /\ wpc = [w \in WorkerIds |-> "none"]
  /\ wjob = [w \in WorkerIds |-> NoJob]
  /\ ppc = [w \in WorkerIds |-> "-"]
  /\ attempt = [w \in WorkerIds |-> 0]
  /\ temp_files = [w \in WorkerIds |-> FALSE]
  /\ stop_pc = "idle"
  /\ sentinels = 0
  /\ req = [t \in TaskIds |-> "new"]
  /\ tasks = [t \in {} |-> TaskState("pending")]
  /\ upload = [t \in TaskIds |-> FALSE]
  /\ audio = [t \in TaskIds |-> FALSE]
  /\ result_file = [t \in TaskIds |-> "none"]
  /\ stub = [t \in TaskIds |-> FALSE]
  /\ accepted = <<>>
  /\ started = <<>>
  /\ caught = {}
  /\ consumed = [w \in WorkerIds |-> 0]
  /\ attempts = [t \in TaskIds |-> 0]
  /\ lastExc = [t \in TaskIds |-> NONE]
  /\ delays = [t \in TaskIds |-> 0]
  /\ returned = {}
  /\ ahead = {}
  /\ lock = "free"
  /\ wr_pc = "idle"
  /\ wr_args = NoArgs
  /\ wr_i = 0
  /\ rd_pc = "idle"
  /\ rd = NoRead
  /\ committed = {}
  /\ api = NoCall
  /\ stamps = NoStamps
  /\ now = 0
  /\ NoTranscribe
  /\ NoMerge
  /\ NoChunks
  /\ starts = 0

\* what no method of the store touches
opsFrame ==
  <<maxsize, workers, queue, worker_tasks, wpc, wjob, ppc, attempt, temp_files,
    stop_pc, sentinels, req, upload, audio, result_file, stub, histVars,
    lock, wr_pc, wr_args, wr_i, rd_pc, rd, committed, wordVars, mergeVars,
    starts, chunkVars>>

store_create(t) ==
  /\ now < MaxCalls
  /\ now' = now + 1
  /\ tasks' = create(tasks, t)
  /\ stamps' = stamp_new(stamps, t, now')
  /\ api' = [op |-> "create", task_id |-> t, args |-> NoArgs, ret |-> tasks'[t]]
  /\ UNCHANGED opsFrame

store_get(t) ==
  /\ now < MaxCalls
  /\ now' = now + 1
  /\ api' = [op |-> "get", task_id |-> t, args |-> NoArgs, ret |-> get(tasks, t)]
  /\ UNCHANGED <<opsFrame, tasks, stamps>>

\* update returns the record it changed, or None
store_update(t, a) ==
  /\ now < MaxCalls
  /\ now' = now + 1
  /\ tasks' = update(tasks, t, a.status, a.progress, a.step, a.result, a.error)
  /\ stamps' = touch(stamps, t, now')
  /\ api' = [op |-> "update", task_id |-> t, args |-> a, ret |-> get(tasks', t)]
  /\ UNCHANGED opsFrame

store_set_result(t) ==
  /\ now < MaxCalls
  /\ now' = now + 1
  /\ tasks' = set_result(tasks, t, "result_payload")
  /\ stamps' = touch(stamps, t, now')
  /\ api' = [op |-> "set_result", task_id |-> t,
              args |-> Args("completed", 100, "Completed", "result_payload", NONE),
              ret |-> get(tasks', t)]
  /\ UNCHANGED opsFrame

store_set_error(t) ==
  /\ now < MaxCalls
  /\ now' = now + 1
  /\ tasks' = set_error(tasks, t, "message")
  /\ stamps' = touch(stamps, t, now')
  /\ api' = [op |-> "set_error", task_id |-> t,
              args |-> Args("failed", NoneInt, "Failed", NONE, "message"),
              ret |-> get(tasks', t)]
  /\ UNCHANGED opsFrame

NextOps ==
  \/ \E t \in TaskIds : store_create(t)
  \/ \E t \in TaskIds : store_get(t)
  \/ \E t \in TaskIds, a \in UpdateArgs : store_update(t, a)
  \/ \E t \in TaskIds : store_set_result(t)
  \/ \E t \in TaskIds : store_set_error(t)

SpecOps == InitOps /\ [][NextOps]_vars

(* ====================== transcription service ========================== *)
\* services/transcription.py. A text is a sequence of one-character
\* strings, a time is a number of milliseconds.

\* U+2581, the mark that opens a word in the engine's tokens
U2581 == "_"

\* the 0.05 s every reconstructed word is meant to last at least
MIN_WORD_MS == 50

\* the limits of _build_segments_from_words, times in milliseconds
max_chars == 80
max_duration == 8000
min_duration == 1000
max_gap == 1200

Max(a, b) == IF a > b THEN a ELSE b

\* \s of Python's re
IsSpace(c) == c \in {" ", "\t", "\n"}

\* text.replace("▁", " ")
replace_mark(text) ==
  [i \in 1..Len(text) |-> IF text[i] = U2581 THEN " " ELSE text[i]]

\* re.sub(r"\s+", " ", text): every run of whitespace becomes one space
sub_spaces(text) ==
  LET marked == [i \in 1..Len(text) |->
                   IF IsSpace(text[i])
                     THEN <<" ", i = 1 \/ ~IsSpace(text[i - 1])>>
                     ELSE <<text[i], TRUE>>]
      kept == SelectSeq(marked, LAMBDA p : p[2])
  IN [i \in 1..Len(kept) |-> kept[i][1]]

lstrip(text) ==
  IF \A i \in 1..Len(text) : IsSpace(text[i]) THEN <<>>
  ELSE LET first == CHOOSE i \in 1..Len(text) :
                      /\ ~IsSpace(text[i])
                      /\ \A j \in 1..(i - 1) : IsSpace(text[j])
       IN SubSeq(text, first, Len(text))

rstrip(text) ==
  IF \A i \in 1..Len(text) : IsSpace(text[i]) THEN <<>>
  ELSE LET last == CHOOSE i \in 1..Len(text) :
                     /\ ~IsSpace(text[i])
                     /\ \A j \in (i + 1)..Len(text) : IsSpace(text[j])
       IN SubSeq(text, 1, last)

strip(text) == rstrip(lstrip(text))

_clean_text(text) ==
  IF text = <<>> THEN <<>> ELSE strip(sub_spaces(replace_mark(text)))

\* the longest prefix of text without whitespace
non_space_run(text) ==
  LET k == CHOOSE k \in 0..Len(text) :
             /\ \A j \in 1..k : ~IsSpace(text[j])
             /\ k = Len(text) \/ IsSpace(text[k + 1])
  IN SubSeq(text, 1, k)

\* re.findall(r"\S+", text)
RECURSIVE findall(_)
findall(text) ==
  LET t == lstrip(text)
      part == non_space_run(t)
  IN IF t = <<>> THEN <<>>
     ELSE <<part>> \o findall(SubSeq(t, Len(part) + 1, Len(t)))

_estimate_word_count(text) ==
  IF text = <<>> THEN 0 ELSE Len(findall(text))

_is_sentence_end(text) ==
  LET t == rstrip(text)
  IN t # <<>> /\ t[Len(t)] \in {".", "!", "?"}

\* " ".join(texts)
RECURSIVE join(_)
join(texts) ==
  IF texts = <<>> THEN <<>>
  ELSE IF Len(texts) = 1 THEN texts[1]
  ELSE texts[1] \o <<" ">> \o join(Tail(texts))

\* the texts of a list that are not empty
RECURSIVE non_empty(_)
non_empty(texts) ==
  IF texts = <<>> THEN <<>>
  ELSE (IF Head(texts) # <<>> THEN <<Head(texts)>> ELSE <<>>) \o non_empty(Tail(texts))

word_texts(word_list) == [i \in 1..Len(word_list) |-> word_list[i].word]

_join_words(word_list) == _clean_text(join(non_empty(word_texts(word_list))))

Word(text, from, to) == [word |-> text, start |-> from, end |-> to]

\* _fallback_words without the least length of a word
_fallback_words_no_min(text, dur) ==
  LET cleaned == _clean_text(text)
      parts == findall(cleaned)
      n == Len(parts)
      step == IF dur > 0 THEN dur \div n ELSE 0
  IN IF n = 0 THEN <<>>
     ELSE [i \in 1..n |->
             Word(parts[i], step * (i - 1), IF i < n THEN step * i ELSE dur)]

_fallback_words(text, dur) ==
  LET cleaned == _clean_text(text)
      parts == findall(cleaned)
      n == Len(parts)
      step == IF dur > 0 THEN dur \div n ELSE 0
      End(idx) == IF idx + 1 < n THEN step * (idx + 1) ELSE dur
  IN IF n = 0 THEN <<>>
     ELSE [i \in 1..n |->
             LET idx == i - 1
             IN Word(parts[i], step * idx,
                     IF End(idx) <= step * idx THEN step * idx + MIN_WORD_MS
                     ELSE End(idx))]

\* the loop of _extract_words over zip(tokens, timestamps); st holds words,
\* current_word, current_start and last_time
RECURSIVE extract_loop(_, _, _)
extract_loop(tokens, timestamps, st) ==
  IF tokens = <<>> \/ timestamps = <<>> THEN st
  ELSE LET token == Head(tokens)
           timestamp == Head(timestamps)
           token_text == replace_mark(token)
           opens == (token # <<>> /\ Head(token) = U2581) \/ st.current_word = <<>>
           next ==
             IF timestamp = NoneInt THEN st
             ELSE IF opens
               THEN [words |->
                       IF st.current_word # <<>>
                         THEN Append(st.words,
                                     Word(st.current_word,
                                          IF st.current_start = NoneInt THEN 0
                                          ELSE st.current_start,
                                          timestamp))
                         ELSE st.words,
                     current_word |-> strip(token_text),
                     current_start |-> timestamp,
                     last_time |-> timestamp]
             ELSE [st EXCEPT !.current_word = @ \o token_text,
                             !.last_time = timestamp]
       IN extract_loop(Tail(tokens), Tail(timestamps), next)

\* the end times _extract_words gives the words it has collected
fix_ends(word_list, dur) ==
  [i \in 1..Len(word_list) |->
     LET w == word_list[i]
         min_end == w.start + MIN_WORD_MS
     IN IF i < Len(word_list)
          THEN [w EXCEPT !.end = Max(word_list[i + 1].start, min_end)]
        ELSE IF dur > 0
          THEN [w EXCEPT !.end = Max(min_end, dur)]
        ELSE [w EXCEPT !.end = Max(min_end, w.end)]]

_extract_words(result, dur, fallback_text) ==
  LET st == extract_loop(result.tokens, result.timestamps,
                         [words |-> <<>>, current_word |-> <<>>,
                          current_start |-> NoneInt, last_time |-> NoneInt])
      collected ==
        IF st.current_word # <<>>
          THEN Append(st.words,
                      Word(st.current_word,
                           IF st.current_start = NoneInt THEN 0 ELSE st.current_start,
                           IF st.last_time # NoneInt THEN st.last_time ELSE dur))
          ELSE st.words
      kept == SelectSeq(collected, LAMBDA w : w.word # <<>>)
      fixed == fix_ends(kept, dur)
      estimated_count == _estimate_word_count(fallback_text)
  IN IF result.tokens = <<>> \/ result.timestamps = <<>>
       THEN _fallback_words(fallback_text, dur)
     ELSE IF estimated_count # 0 /\ Len(fixed) < Max(3, estimated_count \div 4)
       THEN _fallback_words(fallback_text, dur)
     ELSE fixed

\* words.sort(key=lambda item: item['start']): a stable sort
RECURSIVE insert_word(_, _)
insert_word(sorted, w) ==
  IF sorted = <<>> THEN <<w>>
  ELSE IF sorted[Len(sorted)].start <= w.start THEN Append(sorted, w)
  ELSE Append(insert_word(SubSeq(sorted, 1, Len(sorted) - 1), w), sorted[Len(sorted)])

RECURSIVE sort_words(_)
sort_words(word_list) ==
  IF word_list = <<>> THEN <<>>
  ELSE insert_word(sort_words(SubSeq(word_list, 1, Len(word_list) - 1)),
                   word_list[Len(word_list)])

\* range(0, int(duration * 1000), chunk_length_ms): the number of pieces
chunk_count(dur, chunk_length_ms) ==
  IF dur <= chunk_length_ms THEN 1
  ELSE (dur + chunk_length_ms - 1) \div chunk_length_ms

\* range(from, until, step)
RECURSIVE range(_, _, _)
range(from, until, step) ==
  IF from >= until THEN <<>> ELSE <<from>> \o range(from + step, until, step)

\* the pieces the loop over range(0, int(duration * 1000), chunk_length_ms)
\* exports; none when the audio is recognized in one piece
chunks(dur, chunk_length_ms) ==
  IF dur <= chunk_length_ms THEN <<>>
  ELSE LET first_ms == range(0, dur, chunk_length_ms)
       IN [i \in 1..Len(first_ms) |->
             [start_ms |-> first_ms[i],
              end_ms |-> Min(first_ms[i] + chunk_length_ms, dur)]]

\* chunk_words that leaves the times of the words as the engine gave them
chunk_words_no_offset(input, chunk_length_ms, i) ==
  LET start_ms == i * chunk_length_ms
      end_ms == Min(start_ms + chunk_length_ms, input.duration)
      result == input.results[i + 1]
  IN _extract_words(result, end_ms - start_ms, _clean_text(result.text))

\* the words of piece i (from 0), shifted by the start of the piece
chunk_words(input, chunk_length_ms, i) ==
  LET start_ms == i * chunk_length_ms
      end_ms == Min(start_ms + chunk_length_ms, input.duration)
      result == input.results[i + 1]
      found == _extract_words(result, end_ms - start_ms, _clean_text(result.text))
  IN [k \in 1..Len(found) |->
        [found[k] EXCEPT !.start = @ + start_ms, !.end = @ + start_ms]]

RECURSIVE all_chunk_words(_, _, _)
all_chunk_words(input, chunk_length_ms, n) ==
  IF n = 0 THEN <<>>
  ELSE all_chunk_words(input, chunk_length_ms, n - 1)
         \o chunk_words(input, chunk_length_ms, n - 1)

\* transcribe up to the words: <<raw_text, words>>
transcribe_words(input) ==
  LET chunk_length_ms == Max(input.chunk_length_ms, 1000)
      n == chunk_count(input.duration, chunk_length_ms)
      texts == [i \in 1..n |-> _clean_text(input.results[i].text)]
      found ==
        IF input.duration <= chunk_length_ms
          THEN _extract_words(input.results[1], input.duration, texts[1])
          ELSE all_chunk_words(input, chunk_length_ms, n)
      text == _clean_text(join(non_empty(texts)))
  IN <<text, IF found = <<>> THEN _fallback_words(text, input.duration)
             ELSE sort_words(found)>>

Segment(from, to, text) == [start |-> from, end |-> to, text |-> text]

\* should_break without the test of the gap
should_break_no_gap(segment_words, segment_start, last_end, word) ==
  LET candidate_text == _join_words(Append(segment_words, word))
      segment_duration == word.end - segment_start
  IN \/ segment_duration > max_duration
     \/ Len(candidate_text) > max_chars
     \/ /\ _is_sentence_end(segment_words[Len(segment_words)].word)
        /\ segment_duration >= min_duration

\* should_break that measures the open segment's text, without the word
should_break_own_text(segment_words, segment_start, last_end, word) ==
  LET gap == word.start - last_end
      candidate_text == _join_words(segment_words)
      segment_duration == word.end - segment_start
  IN \/ gap > max_gap
     \/ segment_duration > max_duration
     \/ Len(candidate_text) > max_chars
     \/ /\ _is_sentence_end(segment_words[Len(segment_words)].word)
        /\ segment_duration >= min_duration

\* the test that closes the open segment before word
should_break(segment_words, segment_start, last_end, word) ==
  LET gap == word.start - last_end
      candidate_text == _join_words(Append(segment_words, word))
      segment_duration == word.end - segment_start
  IN \/ gap > max_gap
     \/ segment_duration > max_duration
     \/ Len(candidate_text) > max_chars
     \/ /\ _is_sentence_end(segment_words[Len(segment_words)].word)
        /\ segment_duration >= min_duration

\* the loop of _build_segments_from_words; st holds segments,
\* segment_words, segment_start and last_end
RECURSIVE segment_loop(_, _)
segment_loop(word_list, st) ==
  IF word_list = <<>> THEN st
  ELSE LET word == Head(word_list)
           next ==
             IF st.segment_words = <<>>
               THEN [st EXCEPT !.segment_words = <<word>>,
                               !.segment_start = word.start,
                               !.last_end = word.end]
             ELSE IF should_break(st.segment_words, st.segment_start, st.last_end, word)
               THEN [segments |-> Append(st.segments,
                                         Segment(st.segment_start, st.last_end,
                                                 _join_words(st.segment_words))),
                     segment_words |-> <<word>>,
                     segment_start |-> word.start,
                     last_end |-> word.end]
             ELSE [st EXCEPT !.segment_words = Append(@, word),
                             !.last_end = word.end]
       IN segment_loop(Tail(word_list), next)

\* _build_segments_from_words without the segment left open by the loop
_build_segments_no_last(word_list, text, dur) ==
  LET st == segment_loop(word_list,
                         [segments |-> <<>>, segment_words |-> <<>>,
                          segment_start |-> 0, last_end |-> 0])
  IN IF word_list = <<>>
       THEN IF text # <<>> THEN <<Segment(0, dur, text)>> ELSE <<>>
     ELSE st.segments

_build_segments_from_words(word_list, text, dur) ==
  LET st == segment_loop(word_list,
                         [segments |-> <<>>, segment_words |-> <<>>,
                          segment_start |-> 0, last_end |-> 0])
  IN IF word_list = <<>>
       THEN IF text # <<>> THEN <<Segment(0, dur, text)>> ELSE <<>>
     ELSE IF st.segment_words # <<>>
       THEN Append(st.segments,
                   Segment(st.segment_start, st.last_end, _join_words(st.segment_words)))
     ELSE st.segments

(* ------------------- transcribe, taken alone --------------------------- *)
\* every variable of the other views at rest
Quiet ==
  /\ maxsize = 1
  /\ workers = 1
  /\ queue = <<>>
  /\ worker_tasks = {}
  /\ wpc = [w \in WorkerIds |-> "none"]
  /\ wjob = [w \in WorkerIds |-> NoJob]
  /\ ppc = [w \in WorkerIds |-> "-"]
  /\ attempt = [w \in WorkerIds |-> 0]
  /\ temp_files = [w \in WorkerIds |-> FALSE]
  /\ stop_pc = "idle"
  /\ sentinels = 0
  /\ req = [t \in TaskIds |-> "new"]
  /\ tasks = [t \in {} |-> TaskState("pending")]
  /\ upload = [t \in TaskIds |-> FALSE]
  /\ audio = [t \in TaskIds |-> FALSE]
  /\ result_file = [t \in TaskIds |-> "none"]
  /\ stub = [t \in TaskIds |-> FALSE]
  /\ accepted = <<>>
  /\ started = <<>>
  /\ caught = {}
  /\ consumed = [w \in WorkerIds |-> 0]
  /\ attempts = [t \in TaskIds |-> 0]
  /\ lastExc = [t \in TaskIds |-> NONE]
  /\ delays = [t \in TaskIds |-> 0]
  /\ returned = {}
  /\ ahead = {}
  /\ lock = "free"
  /\ wr_pc = "idle"
  /\ wr_args = NoArgs
  /\ wr_i = 0
  /\ rd_pc = "idle"
  /\ rd = NoRead
  /\ committed = {}
  /\ api = NoCall
  /\ stamps = NoStamps
  /\ now = 0
  /\ starts = 0

\* what transcribe does not touch
wordsFrame ==
  <<maxsize, workers, queue, worker_tasks, wpc, wjob, ppc, attempt, temp_files,
    stop_pc, sentinels, req, tasks, upload, audio, result_file, stub, histVars,
    lock, wr_pc, wr_args, wr_i, rd_pc, rd, committed, api, stamps, now,
    mergeVars, starts, chunkVars>>

\* durations are multiples of Grain, so that duration / len(parts) is a
\* whole number of milliseconds for every number of parts that occurs
Grain == 3 * 4 * 5
ChunkMs == ChunkGrains * Grain
Durations == {0, Grain, ChunkMs, ChunkMs + Grain, 2 * ChunkMs}

\* the tokens of the engine: a token that opens a word, one that goes on
\* with the word, and the bare mark
TokenTexts == { <<U2581, "a">>, <<"b">>, <<U2581>> }

\* the timestamps the engine gives the tokens of a piece of audio: not
\* after the end of the piece, and in the order of the tokens
Times(dur) == {x \in {0, Grain \div 2, Grain, ChunkMs - Grain \div 2} : x <= dur}
Timestamps(k, dur) ==
  {ts \in [1..k -> Times(dur)] : \A i \in 1..(k - 1) : ts[i] <= ts[i + 1]}

RECURSIVE flatten(_)
flatten(texts) == IF texts = <<>> THEN <<>> ELSE Head(texts) \o flatten(Tail(texts))

\* what recognize returns for a piece of audio of length dur: k tokens,
\* with their timestamps or without any, and the text of the tokens
Results(k, dur) ==
  {[tokens |-> tk, timestamps |-> ts, text |-> flatten(tk)] :
     tk \in [1..k -> TokenTexts], ts \in Timestamps(k, dur) \cup {<<>>}}

InitWords ==
  /\ Quiet
  /\ \E dur \in Durations, k1 \in 0..MaxTokens :
       \E r1 \in Results(k1, Min(dur, ChunkMs)) :
         IF chunk_count(dur, ChunkMs) = 1
           THEN asr = [duration |-> dur, chunk_length_ms |-> ChunkMs,
                       results |-> <<r1>>]
           ELSE \E k2 \in 0..(MaxTokens - k1) :
                  \E r2 \in Results(k2, dur - ChunkMs) :
                    asr = [duration |-> dur, chunk_length_ms |-> ChunkMs,
                           results |-> <<r1, r2>>]
  /\ tr_raw_text = <<>>
  /\ tr_duration = 0
  /\ tr_words = <<>>
  /\ tr_segments = <<>>
  /\ tr_chunks = <<>>
  /\ tpc = "recognize"
  /\ NoMerge
  /\ NoChunks

\* transcribe from the loading of the audio to the sorted word list
transcribe_recognize ==
  /\ tpc = "recognize"
  /\ tr_duration' = asr.duration
  /\ tr_raw_text' = transcribe_words(asr)[1]
  /\ tr_words' = transcribe_words(asr)[2]
  /\ tr_chunks' = chunks(asr.duration, Max(asr.chunk_length_ms, 1000))
  /\ tpc' = "segment"
  /\ UNCHANGED <<wordsFrame, asr, tr_segments>>

\* segments = self._build_segments_from_words(words, raw_text, duration)
transcribe_segment ==
  /\ tpc = "segment"
  /\ tr_segments' = _build_segments_from_words(tr_words, tr_raw_text, tr_duration)
  /\ tpc' = "done"
  /\ UNCHANGED <<wordsFrame, asr, tr_raw_text, tr_duration, tr_words, tr_chunks>>

NextWords ==
  \/ transcribe_recognize
  \/ transcribe_segment

SpecWords == InitWords /\ [][NextWords]_vars

(* ------------- transcribe of speech with sentence ends ----------------- *)
\* tokens that each open a word, one of them ending a sentence
SpeechTokens == { <<U2581, "a">>, <<U2581, "a", ".">> }

\* timestamps at the start of a piece, half a grain later and half a
\* grain before its end; several tokens may carry the same timestamp
SpeechTimes(dur) == {x \in {0, Grain \div 2, dur - Grain \div 2} : 0 <= x /\ x <= dur}

\* what the engine returns for a piece of k tokens
SpeechResults(k, dur) ==
  {[tokens |-> tk, timestamps |-> ts, text |-> flatten(tk)] :
     tk \in [1..k -> SpeechTokens],
     ts \in {s \in [1..k -> SpeechTimes(dur)] :
               \A i \in 1..(k - 1) : s[i] <= s[i + 1]} \cup {<<>>}}

\* audio of one piece with three or more words, and audio of two pieces
\* with three words in the first and none or three in the second
InitSpeech ==
  /\ Quiet
  /\ \/ \E k \in 3..MaxTokens : \E r \in SpeechResults(k, ChunkMs) :
          asr = [duration |-> ChunkMs, chunk_length_ms |-> ChunkMs,
                 results |-> <<r>>]
     \/ \E r1 \in SpeechResults(3, ChunkMs), k \in {0, 3} :
          \E r2 \in SpeechResults(k, Grain) :
            asr = [duration |-> ChunkMs + Grain, chunk_length_ms |-> ChunkMs,
                   results |-> <<r1, r2>>]
  /\ tr_raw_text = <<>>
  /\ tr_duration = 0
  /\ tr_words = <<>>
  /\ tr_segments = <<>>
  /\ tr_chunks = <<>>
  /\ tpc = "recognize"
  /\ NoMerge
  /\ NoChunks

SpecSpeech == InitSpeech /\ [][NextWords]_vars

(* ------------------- the segmenter, taken alone ------------------------ *)
\* n characters, the last one given
Letters(n, last) == [i \in 1..n |-> IF i = n THEN last ELSE "a"]

\* word texts: short, ending a sentence, half a line
WordTexts ==
  { Letters(2, "i"), Letters(3, "."), Letters(max_chars \div 2, "g") }

\* the silence before a word and the time the word takes
WordGaps == {0, max_gap, max_gap + 1}
WordLens == {MIN_WORD_MS, min_duration, max_duration \div 2, max_duration + 1}

\* the Word list of a list of <<text, gap, length>>, starting at time from
RECURSIVE place_words(_, _)
place_words(choice, from) ==
  IF choice = <<>> THEN <<>>
  ELSE LET c == Head(choice)
           w == Word(c[1], from + c[2], from + c[2] + c[3])
       IN <<w>> \o place_words(Tail(choice), w.end)

WordLists ==
  {place_words(c, 0) :
     c \in UNION {[1..k -> WordTexts \X WordGaps \X WordLens] : k \in 0..MaxWords}}

InitSegments ==
  /\ Quiet
  /\ asr = NoAsr
  /\ tr_words \in WordLists
  /\ tr_raw_text = _join_words(tr_words)
  /\ tr_duration = IF tr_words = <<>> THEN 0 ELSE tr_words[Len(tr_words)].end
  /\ tr_segments = <<>>
  /\ tr_chunks = <<>>
  /\ tpc = "segment"
  /\ NoMerge
  /\ NoChunks

NextSegments == transcribe_segment

SpecSegments == InitSegments /\ [][NextSegments]_vars

(* ------------- the chunk files of transcribe, taken alone -------------- *)
\* audio of one piece, and audio of 2 .. MaxChunks pieces with a last
\* piece that is short or whole
ChunkDurations ==
  {k * ChunkMs + g : k \in 0..(MaxChunks - 1), g \in {Grain, ChunkMs}}

\* the indices of the pieces: range(0, int(duration * 1000), chunk_length_ms)
piece_count == Len(chunks(asr.duration, Max(asr.chunk_length_ms, 1000)))

\* what the chunk loop and its finally clause do not touch
chunksFrame ==
  <<maxsize, workers, queue, worker_tasks, wpc, wjob, ppc, attempt, temp_files,
    stop_pc, sentinels, req, tasks, upload, audio, result_file, stub, histVars,
    lock, wr_pc, wr_args, wr_i, rd_pc, rd, committed, api, stamps, now,
    wordVars, mergeVars, starts>>

InitChunks ==
  /\ Quiet
  /\ \E dur \in ChunkDurations :
       asr = [duration |-> dur, chunk_length_ms |-> ChunkMs, results |-> <<>>]
  /\ tr_raw_text = <<>>
  /\ tr_duration = 0
  /\ tr_words = <<>>
  /\ tr_segments = <<>>
  /\ tr_chunks = <<>>
  /\ tpc = "idle"
  /\ NoMerge
  /\ cpc = "try"
  /\ chunk_index = 0
  /\ temp_paths = <<>>
  /\ chunk_files = {}
  /\ chunk_exc = FALSE
  /\ path_i = 0

\* if duration <= chunk_length_s: the audio file itself is recognized
single_recognize ==
  /\ cpc = "try"
  /\ asr.duration <= Max(asr.chunk_length_ms, 1000)
  /\ \E raises \in BOOLEAN : chunk_exc' = raises
  /\ cpc' = "finally"
  /\ path_i' = 0
  /\ UNCHANGED <<chunksFrame, chunk_index, temp_paths, chunk_files>>

\* else: the loop over the pieces is entered
chunk_loop ==
  /\ cpc = "try"
  /\ asr.duration > Max(asr.chunk_length_ms, 1000)
  /\ cpc' = "loop"
  /\ UNCHANGED <<chunksFrame, chunk_index, temp_paths, chunk_files, chunk_exc, path_i>>

\* chunk_begin without temp_paths.append(chunk_path)
chunk_begin_no_append ==
  /\ cpc = "loop"
  /\ chunk_index < piece_count
  /\ cpc' = "export"
  /\ UNCHANGED <<chunksFrame, chunk_index, temp_paths, chunk_files, chunk_exc, path_i>>

\* the piece is cut and resampled, its path is appended to temp_paths
chunk_begin ==
  /\ cpc = "loop"
  /\ chunk_index < piece_count
  /\ temp_paths' = Append(temp_paths, chunk_index)
  /\ cpc' = "export"
  /\ UNCHANGED <<chunksFrame, chunk_index, chunk_files, chunk_exc, path_i>>

\* cutting or resampling the piece raises: no path appended, no file
chunk_cut_raise ==
  /\ cpc = "loop"
  /\ chunk_index < piece_count
  /\ chunk_exc' = TRUE
  /\ cpc' = "finally"
  /\ path_i' = 0
  /\ UNCHANGED <<chunksFrame, chunk_index, temp_paths, chunk_files>>

\* the loop has run over every piece
chunk_loop_end ==
  /\ cpc = "loop"
  /\ chunk_index = piece_count
  /\ cpc' = "finally"
  /\ path_i' = 0
  /\ UNCHANGED <<chunksFrame, chunk_index, temp_paths, chunk_files, chunk_exc>>

\* chunk.export(chunk_path, ...) returns: the file is on disk
chunk_export_ok ==
  /\ cpc = "export"
  /\ chunk_files' = chunk_files \cup {chunk_index}
  /\ cpc' = "recognize"
  /\ UNCHANGED <<chunksFrame, chunk_index, temp_paths, chunk_exc, path_i>>

\* chunk.export raises, before or after it has created the file
chunk_export_raise ==
  /\ cpc = "export"
  /\ \E created \in BOOLEAN :
       chunk_files' = IF created THEN chunk_files \cup {chunk_index} ELSE chunk_files
  /\ chunk_exc' = TRUE
  /\ cpc' = "finally"
  /\ path_i' = 0
  /\ UNCHANGED <<chunksFrame, chunk_index, temp_paths>>

\* recognize and _extract_words return; chunk_index += 1
chunk_recognize_ok ==
  /\ cpc = "recognize"
  /\ chunk_index' = chunk_index + 1
  /\ cpc' = "loop"
  /\ UNCHANGED <<chunksFrame, temp_paths, chunk_files, chunk_exc, path_i>>

\* recognize or _extract_words raises
chunk_recognize_raise ==
  /\ cpc = "recognize"
  /\ chunk_exc' = TRUE
  /\ cpc' = "finally"
  /\ path_i' = 0
  /\ UNCHANGED <<chunksFrame, chunk_index, temp_paths, chunk_files>>

\* finally: for path in temp_paths: if os.path.exists(path): os.remove(path)
finally_remove ==
  /\ cpc = "finally"
  /\ path_i < Len(temp_paths)
  /\ chunk_files' = chunk_files \ {temp_paths[path_i + 1]}
  /\ path_i' = path_i + 1
  /\ UNCHANGED <<chunksFrame, chunk_index, temp_paths, chunk_exc, cpc>>

\* the finally clause is left: the exception goes on to the caller, or
\* transcribe goes on to build its result, which touches no file
finally_end ==
  /\ cpc = "finally"
  /\ path_i = Len(temp_paths)
  /\ cpc' = IF chunk_exc THEN "raised" ELSE "returned"
  /\ UNCHANGED <<chunksFrame, chunk_index, temp_paths, chunk_files, chunk_exc, path_i>>

NextChunks ==
  \/ single_recognize
  \/ chunk_loop
  \/ chunk_begin
  \/ chunk_cut_raise
  \/ chunk_loop_end
  \/ chunk_export_ok
  \/ chunk_export_raise
  \/ chunk_recognize_ok
  \/ chunk_recognize_raise
  \/ finally_remove
  \/ finally_end

SpecChunks == InitChunks /\ [][NextChunks]_vars

(* =============================== claims ================================ *)
Terminal == {"completed", "failed"}
Finished == caught \cup returned
Rank(status) ==
  IF status = "pending" THEN 0 ELSE IF status = "processing" THEN 1 ELSE 2
SentinelsQueued == Cardinality({i \in 1..Len(queue) : queue[i] = Sentinel})
ConsumedBy(W) == Cardinality({w \in W : consumed[w] = 1})

\* C1: an enqueue on a queue holding maxsize items returns False and leaves
\* the queue as it is, at maxsize; an enqueue on a queue with fewer items
\* returns True and makes the queue exactly one longer, the job at its end.
C1_EnqueueAdmission ==
  [][\A t \in TaskIds :
       (req[t] \in {"new", "saving"}
          /\ req'[t] \in {"handler_accepted", "handler_rejected",
                          "direct_accepted", "direct_rejected"})
       => IF Len(queue) = maxsize
            THEN /\ req'[t] \in {"handler_rejected", "direct_rejected"}
                 /\ queue' = queue
                 /\ Len(queue') = maxsize
            ELSE /\ Len(queue) < maxsize
                 /\ req'[t] \in {"handler_accepted", "direct_accepted"}
                 /\ Len(queue') = Len(queue) + 1
                 /\ queue'[Len(queue')].task_id = t
                 /\ SubSeq(queue', 1, Len(queue)) = queue]_vars

\* C1 witness: one submission was refused by enqueue on a full queue and
\* another one was accepted
C1_Witness ==
  \E t, u \in TaskIds :
    /\ req[t] \in {"handler_rejected", "direct_rejected"}
    /\ req[u] \in {"handler_accepted", "direct_accepted"}
    /\ Len(queue) = maxsize

\* C2: every task whose job the submission handler enqueued reaches a
\* terminal status; stated on the final result: once a worker has run the
\* job to its end, the task's status is completed or failed.
C2_HandlerTaskTerminal ==
  \A t \in TaskIds :
    (req[t] = "handler_accepted" /\ t \in Finished)
      => tasks[t].status \in Terminal

\* C3: no job the submission handler enqueued raises into the worker
\* loop's exception handler: its pipeline call returns normally.
C3_NoExceptionReachesWorker ==
  \A t \in TaskIds : req[t] = "handler_accepted" => t \notin caught

\* C4: a pipeline run that ends in failed has made exactly max_retries+1
\* attempts, each begun by writing processing/10, the stored error is the
\* message of the last attempt's exception, and a run that has returned
\* begins no further attempt.
C4_RetryExhaustion ==
  [] [/\ \A w \in WorkerIds :
          LET t == wjob[w].task_id
          IN (wpc[w] = "run" /\ ppc[w] # "call" /\ tasks[t].status # "failed"
                /\ tasks'[t].status = "failed")
             => /\ attempts[t] = wjob[w].max_retries + 1
                /\ attempt[w] = wjob[w].max_retries
                /\ tasks'[t].error = lastExc'[t]
                /\ tasks'[t].error # NONE
                /\ t \in returned'
      /\ \A t \in TaskIds :
          /\ attempts'[t] # attempts[t]
               => /\ attempts'[t] = attempts[t] + 1
                  /\ tasks'[t].status = "processing"
                  /\ tasks'[t].progress = PROGRESS_INIT
          /\ t \in returned => attempts'[t] = attempts[t]]_vars

\* C4 witness: a run failed after a retry, its last attempt at the save step
C4_Witness ==
  \E t \in DOMAIN tasks :
    /\ t \in returned
    /\ tasks[t].status = "failed"
    /\ attempts[t] = MaxRetries + 1
    /\ attempts[t] >= 2
    /\ tasks[t].error = MsgSave

\* C5: a task's status never moves backward in pending < processing <
\* {completed, failed}; a completed or failed task keeps its status, so
\* processing is never entered from failed.
C5_StatusMonotonic ==
  [][\A t \in DOMAIN tasks :
       /\ t \in DOMAIN tasks'
       /\ Rank(tasks'[t].status) >= Rank(tasks[t].status)
       /\ tasks[t].status \in Terminal => tasks'[t].status = tasks[t].status]_vars

\* C5 witness: a task completed after an attempt that was retried
C5_Witness ==
  \E t \in DOMAIN tasks :
    tasks[t].status = "completed" /\ attempts[t] >= 2 /\ delays[t] >= 1

\* C6: the status, progress and step a status poll returns are those left
\* by one whole store call: no response mixes fields from before and from
\* after an update call.
C6_NoTornRead ==
  rd_pc = "done" => <<rd.status, rd.progress, rd.step>> \in committed

\* C7: a job that raises does not end the worker loop: the worker goes back
\* to waiting on the queue; the number of live worker loops goes down only
\* by one worker taking a sentinel, and up only by start.
C7_WorkerSurvives ==
  [] [/\ \A w \in WorkerIds :
          /\ wpc[w] = "run" => wpc'[w] \in {"run", "get"}
          /\ (wpc[w] = "run" /\ caught' # caught /\ wjob[w].task_id \in caught')
               => wpc'[w] = "get"
      /\ Cardinality(LiveWorkers') < Cardinality(LiveWorkers)
           => /\ Cardinality(LiveWorkers') = Cardinality(LiveWorkers) - 1
              /\ queue # <<>>
              /\ Head(queue) = Sentinel
              /\ \E w \in WorkerIds : wpc[w] = "get" /\ wpc'[w] = "stopped"
      /\ Cardinality(LiveWorkers') > Cardinality(LiveWorkers)
           => worker_tasks = {} /\ worker_tasks' # {}]_vars

\* C7 witness: the only worker, whose first job raised into its handler, is
\* executing its second job
C7_Witness ==
  /\ workers = 1
  /\ Len(started) = 2
  /\ started[1] \in caught
  /\ \E w \in WorkerIds : wpc[w] = "run" /\ wjob[w].task_id = started[2]

\* C8: workers take the jobs in the order in which their enqueue calls
\* succeeded; with a single worker every job taken earlier has ended when
\* the next one is taken.
C8_FIFO ==
  /\ Len(started) <= Len(accepted)
  /\ \A i \in 1..Len(started) : started[i] = accepted[i]
  /\ workers = 1 => \A i \in 1..(Len(started) - 1) : started[i] \in Finished

\* C8 witness: a single worker has taken two accepted jobs, in their order
C8_Witness ==
  /\ workers = 1
  /\ Len(started) = 2
  /\ started = accepted
  /\ started[1] \in Finished

\* C9: stop() puts one sentinel per worker, a worker ends exactly by taking
\* one sentinel and never while it executes a job, every job enqueued
\* before the last sentinel has been executed when all workers have ended,
\* and stop() returns only when all workers have ended.
C9_GracefulStop ==
  /\ [](/\ sentinels <= workers
        /\ stop_pc = "idle" => sentinels = 0
        /\ stop_pc \in {"gather", "returned"} => sentinels = workers
        /\ sentinels = SentinelsQueued + ConsumedBy(WorkerIds)
        /\ \A w \in WorkerIds :
             /\ consumed[w] <= 1
             /\ wpc[w] = "stopped" <=> consumed[w] = 1
        /\ (\A w \in 1..workers : wpc[w] = "stopped") => ahead \subseteq Finished
        /\ stop_pc = "returned"
             => /\ LiveWorkers = {}
                /\ \A w \in 1..workers : wpc[w] = "stopped"
                /\ ahead \subseteq Finished)
  /\ [][\A w \in WorkerIds :
          (wpc'[w] = "stopped" /\ wpc[w] # "stopped")
            => /\ wpc[w] = "get"
               /\ queue # <<>>
               /\ Head(queue) = Sentinel
               /\ consumed'[w] = 1]_vars

\* C9 witness: stop() has returned, two workers have ended, and a job that
\* was being executed or queued when the sentinels were put has been run
C9_Witness ==
  /\ stop_pc = "returned"
  /\ workers = 2
  /\ ahead # {}
  /\ ahead \subseteq Finished
  /\ \A w \in 1..workers : consumed[w] = 1

\* C10: an attempt that fails because the file is missing is not retried:
\* the task is failed after that single attempt, with the exception's
\* message, no retry label written and no retry delay taken.
C10_InputErrorNotRetried ==
  \A t \in DOMAIN tasks :
    lastExc[t] = MsgNotFound
      => /\ tasks[t].status = "failed"
         /\ tasks[t].step = "Failed"
         /\ tasks[t].error = MsgNotFound
         /\ attempts[t] = 1
         /\ delays[t] = 0

\* C11: an attempt for which the persistence update reports false (no row
\* of the task can be changed) is a failure: a run that has returned for a
\* task without a row has not marked the task completed.
C11_UpdateFalseFails ==
  \A t \in DOMAIN tasks :
    (t \in returned /\ ~update_transcription(stub, t))
      => tasks[t].status # "completed"

\* C12: whenever a task's TaskState is completed, the persistence store
\* holds a completed row for it (processing_time set), and a status poll
\* answers completed, not an error.
C12_CompletedIsPersisted ==
  \A t \in DOMAIN tasks :
    tasks[t].status = "completed"
      => /\ _get_completed_row(stub, t) # NoRow
         /\ get_status(tasks, stub, t) = [code |-> 200, status |-> "completed"]

\* the worker that is inside an attempt for task t, past the point where
\* the attempt has the steps in pcs ahead of it
Running(t, pcs) ==
  \E w \in WorkerIds : wpc[w] = "run" /\ wjob[w].task_id = t /\ ppc[w] \in pcs

\* C13: at the end of every attempt (the run sleeps before a retry or has
\* returned) no extracted or converted audio file of the task is on disk,
\* whichever step raised: such a file exists only while an attempt that
\* wrote it is still between preparation and its end.
C13_NoTempFileLeft ==
  \A t \in TaskIds :
    audio[t] => Running(t, {"transcribe", "diarize", "save"})

\* C14: the upload is kept as long as a further attempt is to come (a run
\* that is past the file check, or that retries after another error than a
\* missing file, still has its upload), and a task with a terminal status
\* has no upload left.
C14_UploadLifetime ==
  \A t \in DOMAIN tasks :
    /\ tasks[t].status \in Terminal => ~upload[t]
    /\ Running(t, {"ffmpeg", "transcribe", "diarize", "save"}) => upload[t]
    /\ (Running(t, {"sleep", "begin", "prepare"}) /\ lastExc[t] \notin {NONE, MsgNotFound})
         => upload[t]

\* C14 witness: a run failed for good in its second attempt, at the
\* diarization step, and the upload it had until then is gone
C14_Witness ==
  \E t \in DOMAIN tasks :
    /\ t \in returned
    /\ tasks[t].status = "failed"
    /\ delays[t] >= 1
    /\ lastExc[t] = MsgDiarize
    /\ ~upload[t]

\* the job of task t is nowhere: not accepted, not queued, not taken
NeverEnqueued(t) ==
  /\ \A i \in 1..Len(accepted) : accepted[i] # t
  /\ \A i \in 1..Len(started) : started[i] # t
  /\ \A i \in 1..Len(queue) : queue[i].task_id # t
  /\ \A w \in WorkerIds : wjob[w].task_id # t
  /\ t \notin Finished

\* C15: a submission the handler rejected because the queue is full has
\* enqueued no job, and no TaskState record, no upload file and no
\* persistence stub of it remains.
C15_RejectedLeavesNothing ==
  \A t \in TaskIds :
    req[t] \in {"rejected_full", "handler_rejected"}
      => /\ NeverEnqueued(t)
         /\ t \notin DOMAIN tasks
         /\ ~upload[t]
         /\ ~stub[t]

\* C15 as amended: a submission the handler rejected because the queue is
\* full has enqueued no job and has no upload file and no persistence stub
\* left; rejected by the pre-flight full() check it has created no
\* TaskState record, rejected by enqueue it leaves its TaskState record in
\* the store as failed with the error "Queue is full".
C15_RejectedCleanup ==
  \A t \in TaskIds :
    /\ req[t] \in {"rejected_full", "handler_rejected"}
         => /\ NeverEnqueued(t)
            /\ ~upload[t]
            /\ ~stub[t]
    /\ req[t] = "rejected_full" => t \notin DOMAIN tasks
    /\ req[t] = "handler_rejected"
         => /\ t \in DOMAIN tasks
            /\ tasks[t] = [status |-> "failed", progress |-> 0, step |-> "Failed",
                            result |-> NONE, error |-> MsgQueueFull]

\* C15 witness: enqueue refused a submission that had passed the
\* pre-flight check, and another submission was refused by that check
C15_Witness ==
  \E t, u \in TaskIds :
    /\ req[t] = "handler_rejected"
    /\ req[u] = "rejected_full"
    /\ tasks[t].status = "failed"

\* the value a field has after a call that was given v for it
Given(v, none, old) == IF v # none THEN v ELSE old

\* C16: a call of update (also through set_result / set_error) on a task in
\* the store changes exactly the fields it was given and updated_at, keeps
\* the other fields and created_at, and returns the record; no call changes
\* the record of another task; get, update, set_result and set_error on a
\* task_id that is not in the store return None and leave the store as it
\* is, without creating a record.
C16_UpdateFrame ==
  [][now' # now =>
       LET t == api'.task_id
           a == api'.args
       IN /\ \A u \in DOMAIN tasks :
               u # t => /\ u \in DOMAIN tasks'
                        /\ tasks'[u] = tasks[u]
                        /\ stamps'[u] = stamps[u]
          /\ api'.op \in {"get", "update", "set_result", "set_error"}
               => IF t \notin DOMAIN tasks
                    THEN /\ api'.ret = NONE
                         /\ tasks' = tasks
                         /\ stamps' = stamps
                    ELSE /\ DOMAIN tasks' = DOMAIN tasks
                         /\ api'.ret = tasks'[t]
                         /\ tasks'[t].status = Given(a.status, NONE, tasks[t].status)
                         /\ tasks'[t].progress = Given(a.progress, NoneInt, tasks[t].progress)
                         /\ tasks'[t].step = Given(a.step, NONE, tasks[t].step)
                         /\ tasks'[t].result = Given(a.result, NONE, tasks[t].result)
                         /\ tasks'[t].error = Given(a.error, NONE, tasks[t].error)
                         /\ stamps'[t].created_at = stamps[t].created_at
                         /\ stamps'[t].updated_at =
                              IF api'.op = "get" THEN stamps[t].updated_at ELSE now']_vars

\* C16 witness: update was given a step only, for a pending task, while the
\* store holds another task as well
C16_Witness ==
  /\ api.op = "update"
  /\ api.args = Args(NONE, NoneInt, "Working", NONE, NONE)
  /\ api.task_id \in DOMAIN tasks
  /\ tasks[api.task_id].step = "Working"
  /\ tasks[api.task_id].status = "pending"
  /\ \E u \in DOMAIN tasks : u # api.task_id

\* the record of t before a step; a record the step itself creates starts
\* from the fields of a new TaskState
Before(t) == IF t \in DOMAIN tasks THEN tasks[t] ELSE TaskState("pending")

\* C17: in every reachable state a completed task has progress 100 and a
\* result payload and a failed task has an error message; the step that
\* completes a task (set_result) leaves status completed, progress 100 and
\* the given result, the step that fails a task (set_error) leaves status
\* failed and the given error, with progress and result as they were.
C17_TerminalRecords ==
  /\ [](\A t \in DOMAIN tasks :
          /\ tasks[t].status = "completed"
               => tasks[t].progress = 100 /\ tasks[t].result # NONE
          /\ tasks[t].status = "failed" => tasks[t].error # NONE)
  /\ [][\A t \in DOMAIN tasks' :
          /\ (Before(t).status # "completed" /\ tasks'[t].status = "completed")
               => /\ tasks'[t].progress = 100
                  /\ tasks'[t].result = "result_payload"
                  /\ tasks'[t].error = Before(t).error
          /\ (Before(t).status # "failed" /\ tasks'[t].status = "failed")
               => /\ tasks'[t].error \in {lastExc'[t], MsgQueueFull}
                  /\ tasks'[t].error # NONE
                  /\ tasks'[t].progress = Before(t).progress
                  /\ tasks'[t].result = Before(t).result]_vars

\* C17 witness: one task failed at the save step, its progress still 80,
\* and another task is completed
C17_Witness ==
  \E t, u \in DOMAIN tasks :
    /\ tasks[t].status = "failed"
    /\ tasks[t].progress = PROGRESS_SAVING
    /\ tasks[t].error = MsgSave
    /\ tasks[u].status = "completed"
    /\ tasks[u].progress = 100
    /\ tasks[u].result = "result_payload"


\* C18: the word list transcribe returns has non-decreasing starts, and
\* every word but the last one lasts at least 0.05 s
C18_WordsOrdered ==
  tpc \in {"segment", "done"} =>
    \A i \in 1..(Len(tr_words) - 1) :
      /\ tr_words[i].start <= tr_words[i + 1].start
      /\ tr_words[i].end >= tr_words[i].start + MIN_WORD_MS


(* ------------------------- diarization service ------------------------ *)
\* services/diarization.py, merge_with_transcription. Times are whole
\* numbers of seconds.

UNKNOWN == "UNKNOWN"

overlap(trans_seg, spk_seg) ==
  LET overlap_start == Max(trans_seg.start, spk_seg.start)
      overlap_end == Min(trans_seg.end, spk_seg.end)
  IN Max(0, overlap_end - overlap_start)

\* speaker_loop that lets a later turn with the same overlap take over
RECURSIVE speaker_loop_last(_, _, _)
speaker_loop_last(trans_seg, speaker_segments, st) ==
  IF speaker_segments = <<>> THEN st
  ELSE LET spk_seg == Head(speaker_segments)
       IN speaker_loop_last(trans_seg, Tail(speaker_segments),
            IF overlap(trans_seg, spk_seg) >= st.max_overlap /\ overlap(trans_seg, spk_seg) > 0
              THEN [speaker |-> spk_seg.speaker,
                    max_overlap |-> overlap(trans_seg, spk_seg)]
              ELSE st)

\* the loop over speaker_segments; st holds speaker and max_overlap
RECURSIVE speaker_loop(_, _, _)
speaker_loop(trans_seg, speaker_segments, st) ==
  IF speaker_segments = <<>> THEN st
  ELSE LET spk_seg == Head(speaker_segments)
       IN speaker_loop(trans_seg, Tail(speaker_segments),
            IF overlap(trans_seg, spk_seg) > st.max_overlap
              THEN [speaker |-> spk_seg.speaker,
                    max_overlap |-> overlap(trans_seg, spk_seg)]
              ELSE st)

\* merge_with_transcription that takes a turn for any segment it is given
\* turns for, overlapping or not
merge_with_transcription_any(transcription_segments, speaker_segments) ==
  [i \in 1..Len(transcription_segments) |->
     LET trans_seg == transcription_segments[i]
         st == speaker_loop(trans_seg, speaker_segments,
                            [speaker |-> UNKNOWN, max_overlap |-> 0 - 1])
     IN [start |-> trans_seg.start, end |-> trans_seg.end,
         text |-> trans_seg.text, speaker |-> st.speaker]]

\* merge_with_transcription that leaves out the segments no turn overlaps
merge_with_transcription_labelled(transcription_segments, speaker_segments) ==
  SelectSeq([i \in 1..Len(transcription_segments) |->
               LET trans_seg == transcription_segments[i]
                   st == speaker_loop(trans_seg, speaker_segments,
                                      [speaker |-> UNKNOWN, max_overlap |-> 0])
               IN [start |-> trans_seg.start, end |-> trans_seg.end,
                   text |-> trans_seg.text, speaker |-> st.speaker]],
            LAMBDA seg : seg.speaker # UNKNOWN)

merge_with_transcription(transcription_segments, speaker_segments) ==
  [i \in 1..Len(transcription_segments) |->
     LET trans_seg == transcription_segments[i]
         st == speaker_loop(trans_seg, speaker_segments,
                            [speaker |-> UNKNOWN, max_overlap |-> 0])
     IN [start |-> trans_seg.start, end |-> trans_seg.end,
         text |-> trans_seg.text, speaker |-> st.speaker]]

\* what merge_with_transcription does not touch
mergeFrame ==
  <<maxsize, workers, queue, worker_tasks, wpc, wjob, ppc, attempt, temp_files,
    stop_pc, sentinels, req, tasks, upload, audio, result_file, stub, histVars,
    lock, wr_pc, wr_args, wr_i, rd_pc, rd, committed, api, stamps, now,
    wordVars, starts, chunkVars>>

\* the ends of the intervals: [0, 4) and [4, 10) share a segment of ten
\* seconds unevenly, [0, 10) and [10, 20) share one of twenty evenly
TimePoints == {0, 4, 10, 20}
Intervals == {iv \in TimePoints \X TimePoints : iv[1] < iv[2]}
Speakers == {"A", "B"}

TransSegs == {Segment(iv[1], iv[2], <<"a">>) : iv \in Intervals}
SpeakerSegs ==
  {[start |-> iv[1], end |-> iv[2], speaker |-> sp] :
     iv \in Intervals, sp \in Speakers}

InitMerge ==
  /\ Quiet
  /\ NoTranscribe
  /\ NoChunks
  /\ mg_segments \in UNION {[1..k -> TransSegs] : k \in 0..MaxSegments}
  /\ mg_speakers \in UNION {[1..k -> SpeakerSegs] : k \in 0..MaxTurns}
  /\ mg_merged = <<>>
  /\ mpc = "merge"

\* merged = diarization_service.merge_with_transcription(...)
diarization_merge ==
  /\ mpc = "merge"
  /\ mg_merged' = merge_with_transcription(mg_segments, mg_speakers)
  /\ mpc' = "done"
  /\ UNCHANGED <<mergeFrame, mg_segments, mg_speakers>>

NextMerge == diarization_merge

SpecMerge == InitMerge /\ [][NextMerge]_vars

\* the number of words in the first k segments, counted in their texts
RECURSIVE words_upto(_, _)
words_upto(segs, k) ==
  IF k = 0 THEN 0
  ELSE words_upto(segs, k - 1) + _estimate_word_count(segs[k].text)

\* C19: two consecutive words more than 1.2 s apart are in different
\* segments; the earlier segment ends at the end of the first word and
\* the later one starts at the start of the second
C19_GapRule ==
  tpc = "done" =>
    \A i \in 1..(Len(tr_words) - 1) :
      tr_words[i + 1].start - tr_words[i].end > max_gap =>
        \E k \in 1..(Len(tr_segments) - 1) :
          /\ words_upto(tr_segments, k) = i
          /\ tr_segments[k].end = tr_words[i].end
          /\ tr_segments[k + 1].start = tr_words[i + 1].start

\* two short words, more than 1.2 s apart and within every other limit,
\* have been segmented into two segments
C19_Witness ==
  /\ tpc = "done"
  /\ Len(tr_words) = 2
  /\ tr_words[2].start - tr_words[1].end > max_gap
  /\ tr_words[2].end - tr_words[1].start <= max_duration
  /\ Len(_join_words(tr_words)) <= max_chars
  /\ ~_is_sentence_end(tr_words[1].word)
  /\ Len(tr_segments) = 2

\* C20: when the joined text of the words of a segment and the word k
\* that follows them is longer than 80 characters, and is not with the
\* words before k, the segment ends with word k - 1 and the next segment
\* starts with word k
C20_CharLimitRule ==
  tpc = "done" =>
    \A j \in 1..Len(tr_segments) :
      LET f == words_upto(tr_segments, j - 1) + 1
          l == words_upto(tr_segments, j)
      IN \A k \in (f + 1)..Len(tr_words) :
           ( /\ k - 1 <= l
             /\ Len(_join_words(SubSeq(tr_words, f, k))) > max_chars
             /\ Len(_join_words(SubSeq(tr_words, f, k - 1))) <= max_chars )
           => /\ l = k - 1
              /\ tr_segments[j].end = tr_words[k - 1].end
              /\ tr_segments[j].text = _join_words(SubSeq(tr_words, f, k - 1))
              /\ j < Len(tr_segments)
              /\ tr_segments[j + 1].start = tr_words[k].start

\* three words within every other limit, whose joined text passes 80
\* characters with the third, have been segmented: the first two together
C20_Witness ==
  /\ tpc = "done"
  /\ Len(tr_words) = 3
  /\ Len(_join_words(SubSeq(tr_words, 1, 2))) <= max_chars
  /\ Len(_join_words(tr_words)) > max_chars
  /\ \A i \in 1..2 : tr_words[i + 1].start - tr_words[i].end <= max_gap
  /\ tr_words[3].end - tr_words[1].start <= max_duration
  /\ \A i \in 1..2 : ~_is_sentence_end(tr_words[i].word)
  /\ Len(tr_segments) = 2
  /\ words_upto(tr_segments, 1) = 2


\* the number of times w occurs in the list
Occurs(word_list, w) == Cardinality({i \in 1..Len(word_list) : word_list[i] = w})

\* C21: audio longer than the chunk length L is cut into ceil(D / L)
\* pieces, piece i from i * L to min((i + 1) * L, D), and the words of
\* piece i enter the merged list with start and end moved by i * L; audio
\* of at most L is recognized in one piece and its words are not moved
C21_Chunking ==
  tpc \in {"segment", "done"} =>
    LET D == asr.duration
        L == asr.chunk_length_ms
        n == IF D <= L THEN 1
             ELSE CHOOSE m \in 1..D : (m - 1) * L < D /\ D <= m * L
        from == [i \in 1..n |-> (i - 1) * L]
        to == [i \in 1..n |-> IF i * L < D THEN i * L ELSE D]
        found == [i \in 1..n |->
                    _extract_words(asr.results[i], to[i] - from[i],
                                   _clean_text(asr.results[i].text))]
        moved == [i \in 1..n |->
                    [k \in 1..Len(found[i]) |->
                       Word(found[i][k].word, found[i][k].start + from[i],
                            found[i][k].end + from[i])]]
        all == flatten(moved)
    IN /\ IF D <= L THEN tr_chunks = <<>>
          ELSE /\ Len(tr_chunks) = n
               /\ \A i \in 1..n :
                    tr_chunks[i] = [start_ms |-> from[i], end_ms |-> to[i]]
       /\ all # <<>> =>
            /\ Len(tr_words) = Len(all)
            /\ \A k \in 1..Len(all) :
                 Occurs(tr_words, all[k]) = Occurs(all, all[k])

\* audio one grain longer than the chunk length has been cut in two, and
\* both pieces have given words: the first word of the second piece
\* starts at the chunk length
C21_Witness ==
  /\ tpc = "done"
  /\ asr.duration = ChunkMs + Grain
  /\ tr_chunks = <<[start_ms |-> 0, end_ms |-> ChunkMs],
                   [start_ms |-> ChunkMs, end_ms |-> ChunkMs + Grain]>>
  /\ asr.results[1].tokens # <<>>
  /\ asr.results[2].tokens # <<>>
  /\ \E k \in 2..Len(tr_words) :
       /\ tr_words[k].start = ChunkMs
       /\ tr_words[k - 1].start < ChunkMs


\* the overlaps of segment i of the call with the turns, in input order
Overlaps(i) == [j \in 1..Len(mg_speakers) |-> overlap(mg_segments[i], mg_speakers[j])]

\* C22: a segment that overlaps some turn gets the speaker of the turn
\* with the greatest overlap, and of the first such turn in input order
\* when several share it
C22_GreatestOverlap ==
  mpc = "done" =>
    /\ Len(mg_merged) = Len(mg_segments)
    /\ \A i \in 1..Len(mg_segments) :
         LET ov == Overlaps(i)
         IN \A j \in 1..Len(mg_speakers) :
              ( /\ ov[j] > 0
                /\ \A h \in 1..Len(mg_speakers) : ov[h] <= ov[j]
                /\ \A h \in 1..(j - 1) : ov[h] < ov[j] )
              => mg_merged[i].speaker = mg_speakers[j].speaker

\* a segment that two turns of different speakers share evenly, and one
\* they share unevenly with the shorter part first, have been labelled
C22_Witness ==
  /\ mpc = "done"
  /\ \E i \in 1..Len(mg_segments), j \in 1..Len(mg_speakers) :
       /\ j < Len(mg_speakers)
       /\ Overlaps(i)[j] > 0
       /\ Overlaps(i)[j] = Overlaps(i)[j + 1]
       /\ mg_speakers[j].speaker # mg_speakers[j + 1].speaker
       /\ mg_merged[i].speaker = mg_speakers[j].speaker
  /\ \E i \in 1..Len(mg_segments) :
       /\ Len(mg_speakers) = 2
       /\ Overlaps(i)[1] > 0
       /\ Overlaps(i)[1] < Overlaps(i)[2]
       /\ mg_speakers[1].speaker # mg_speakers[2].speaker
       /\ mg_merged[i].speaker = mg_speakers[2].speaker

\* C23: a segment is labelled UNKNOWN exactly when its overlap with every
\* turn is zero
C23_UnknownIffNoOverlap ==
  mpc = "done" =>
    \A i \in 1..Len(mg_segments) :
      mg_merged[i].speaker = UNKNOWN
        <=> \A j \in 1..Len(mg_speakers) : Overlaps(i)[j] = 0

\* a segment has been labelled UNKNOWN next to turns that end where it
\* starts, and another one of the same call has a speaker
C23_Witness ==
  /\ mpc = "done"
  /\ \E i \in 1..Len(mg_segments) :
       /\ mg_merged[i].speaker = UNKNOWN
       /\ \E j \in 1..Len(mg_speakers) : mg_speakers[j].end = mg_segments[i].start
  /\ \E i \in 1..Len(mg_segments) : mg_merged[i].speaker # UNKNOWN


\* the steps of an attempt, from the first update to the save
AttemptSteps == {"prepare", "ffmpeg", "transcribe", "diarize", "save"}

\* C24: after attempt k has failed with k < max_retries the record is
\* processing with the label of retry k + 1 while the delay is taken; one
\* delay lies between two attempts and none after the last; the attempt
\* after a delay starts with Preparing file at progress 10 and reaches
\* transcription, diarization and saving only through the steps before
C24_RetryRestarts ==
  /\ [](\A w \in WorkerIds :
          (wpc[w] = "run" /\ ppc[w] # "call") =>
            LET t == wjob[w].task_id
            IN /\ delays[t] = attempt[w]
               /\ attempts[t] = IF ppc[w] = "begin" THEN attempt[w] ELSE attempt[w] + 1
               /\ ppc[w] = "sleep" =>
                    /\ attempt[w] < wjob[w].max_retries
                    /\ tasks[t].status = "processing"
                    /\ tasks[t].step =
                         RetryLabel(attempt[w] + 1, wjob[w].max_retries))
  /\ [](\A t \in TaskIds :
          (t \in returned /\ ~Running(t, AttemptSteps \cup {"begin", "sleep"}))
            => delays[t] = attempts[t] - 1)
  /\ [][\A w \in WorkerIds :
          (wpc[w] = "run" /\ ppc'[w] # ppc[w]) =>
            LET t == wjob[w].task_id
            IN /\ ppc[w] = "sleep" =>
                    /\ ppc'[w] = "begin"
                    /\ delays'[t] = delays[t] + 1
                    /\ attempt'[w] = attempt[w] + 1
               /\ ppc[w] = "begin" =>
                    /\ ppc'[w] = "prepare"
                    /\ attempts'[t] = attempts[t] + 1
                    /\ tasks'[t].status = "processing"
                    /\ tasks'[t].progress = PROGRESS_INIT
                    /\ tasks'[t].step = "Preparing file"
               /\ ppc'[w] = "ffmpeg" => ppc[w] = "prepare"
               /\ ppc'[w] = "transcribe" => ppc[w] \in {"prepare", "ffmpeg"}
               /\ ppc'[w] = "diarize" => ppc[w] = "transcribe"
               /\ ppc'[w] = "save" => ppc[w] = "diarize"
               /\ ppc'[w] = "sleep" => ppc[w] \in AttemptSteps]_vars

\* the second attempt of a task, after one delay, is at its first step
\* with progress 10, the first attempt having failed at the save step
C24_Witness ==
  \E w \in WorkerIds :
    /\ wpc[w] = "run"
    /\ ppc[w] = "prepare"
    /\ attempt[w] = 1
    /\ delays[wjob[w].task_id] = 1
    /\ lastExc[wjob[w].task_id] = MsgSave
    /\ tasks[wjob[w].task_id].progress = PROGRESS_INIT
    /\ tasks[wjob[w].task_id].step = "Preparing file"

\* C25: the progress of a task is changed by the worker that runs it
\* only, in the order 10, 20 (when the file is not .wav), 30, 60, 80 within
\* an attempt, and 100 comes with status completed only
C25_ProgressOrder ==
  /\ [](\A t \in DOMAIN tasks :
          tasks[t].progress = 100 => tasks[t].status = "completed")
  /\ [][\A t \in DOMAIN tasks :
          tasks'[t].progress # tasks[t].progress =>
            \E w \in WorkerIds :
              /\ wpc[w] = "run"
              /\ wjob[w].task_id = t
              /\ LET p == tasks[t].progress
                     q == tasks'[t].progress
                     wav == wjob[w].file_ext = ".wav"
                 IN \/ q = PROGRESS_INIT /\ ppc[w] = "begin"
                    \/ q = PROGRESS_AUDIO_EXTRACTED /\ p = PROGRESS_INIT /\ ~wav
                    \/ q = PROGRESS_TRANSCRIBING /\ p = PROGRESS_AUDIO_EXTRACTED /\ ~wav
                    \/ q = PROGRESS_TRANSCRIBING /\ p = PROGRESS_INIT /\ wav
                    \/ q = PROGRESS_DIARIZATION /\ p = PROGRESS_TRANSCRIBING
                    \/ q = PROGRESS_SAVING /\ p = PROGRESS_DIARIZATION
                    \/ /\ q = 100
                       /\ p = PROGRESS_SAVING
                       /\ tasks'[t].status = "completed"]_vars

\* one task is completed at 100, and a .wav file is at the saving step of
\* its second attempt
C25_Witness ==
  /\ \E t \in DOMAIN tasks : tasks[t].status = "completed" /\ tasks[t].progress = 100
  /\ \E w \in WorkerIds :
       /\ wpc[w] = "run"
       /\ ppc[w] = "save"
       /\ attempt[w] = 1
       /\ wjob[w].file_ext = ".wav"
       /\ tasks[wjob[w].task_id].progress = PROGRESS_SAVING

\* C26: no job is taken twice and no two workers run the same task: the
\* task ids taken are all different, they are accepted ones, a job that
\* was taken is no longer on the queue, and the workers that run hold
\* different tasks
C26_OneWorkerPerJob ==
  /\ \A i, j \in 1..Len(started) : i # j => started[i] # started[j]
  /\ \A i \in 1..Len(started) : \E j \in 1..Len(accepted) : accepted[j] = started[i]
  /\ \A i \in 1..Len(queue), j \in 1..Len(started) :
       queue[i] # Sentinel => queue[i].task_id # started[j]
  /\ \A v, w \in WorkerIds :
       (v # w /\ wpc[v] = "run" /\ wpc[w] = "run")
         => wjob[v].task_id # wjob[w].task_id
  /\ \A w \in WorkerIds :
       wpc[w] = "run" => \E i \in 1..Len(started) : started[i] = wjob[w].task_id

\* two workers run two tasks at the same time
C26_Witness ==
  \E v, w \in WorkerIds :
    /\ v # w
    /\ wpc[v] = "run"
    /\ wpc[w] = "run"
    /\ ppc[v] = "transcribe"
    /\ ppc[w] = "transcribe"


\* C27: the worker loops that have not ended are never more than the
\* configured number of workers, however often start() is called, and so
\* are the jobs being executed
C27_WorkersBounded ==
  /\ Cardinality(LiveWorkers) <= workers
  /\ Cardinality({w \in WorkerIds : wpc[w] = "run"}) <= workers

\* start() has been called a second time while the one configured worker
\* was running a job, and a slot for a second worker was left unused
C27_Witness ==
  /\ starts = 2
  /\ workers = 1
  /\ workers < MaxWorkers
  /\ stop_pc = "idle"
  /\ \E w \in WorkerIds : wpc[w] = "run"
  /\ Cardinality(LiveWorkers) = 1


\* C28: an attempt is at the diarization step only for a job that was
\* submitted with a request for diarization (the enable_diarization
\* keyword argument)
C28_DiarizeOnlyOnRequest ==
  \A w \in WorkerIds :
    (wpc[w] = "run" /\ ppc[w] = "diarize")
      => "enable_diarization" \in wjob[w].kwargs


\* C29: every segment has a text of at most 80 characters, lasts at most
\* 8 s, and has no two consecutive words more than 1.2 s apart
C29_SegmentBounds ==
  tpc = "done" =>
    \A j \in 1..Len(tr_segments) :
      LET f == words_upto(tr_segments, j - 1) + 1
          l == words_upto(tr_segments, j)
      IN /\ Len(tr_segments[j].text) <= max_chars
         /\ tr_segments[j].end - tr_segments[j].start <= max_duration
         /\ \A i \in f..(l - 1) :
              tr_words[i + 1].start - tr_words[i].end <= max_gap

\* C30: where no other rule applies between a word and the next one of
\* the list, the segment ends with the word exactly when its text ends a
\* sentence and the segment, from the start of its first word to the end
\* of this word, lasts at least 1 s
C30_SentenceEndRule ==
  tpc = "done" =>
    \A j \in 1..Len(tr_segments) :
      LET f == words_upto(tr_segments, j - 1) + 1
          l == words_upto(tr_segments, j)
      IN \A i \in f..l :
           ( /\ i < Len(tr_words)
             /\ tr_words[i + 1].start - tr_words[i].end <= max_gap
             /\ tr_words[i + 1].end - tr_words[f].start <= max_duration
             /\ Len(_join_words(SubSeq(tr_words, f, i + 1))) <= max_chars )
           => ( i = l <=> /\ _is_sentence_end(tr_words[i].word)
                          /\ tr_words[i].end - tr_words[f].start >= min_duration )

\* C31: the segments are consecutive non-empty runs of the word list that
\* cover it in order; a segment starts where its first word starts, ends
\* where its last word ends and carries the joined text of its words; one
\* word alone gives one segment with that word's span and text
C31_SegmentsPartition ==
  (tpc = "done" /\ tr_words # <<>>) =>
    LET n == Len(tr_words)
    IN /\ \E cuts \in SUBSET (1..(n - 1)) :
            LET ends == cuts \cup {n}
                hi == [j \in 1..Cardinality(ends) |->
                         CHOOSE e \in ends : Cardinality({x \in ends : x <= e}) = j]
                lo == [j \in 1..Cardinality(ends) |->
                         IF j = 1 THEN 1 ELSE hi[j - 1] + 1]
            IN /\ Len(tr_segments) = Cardinality(ends)
               /\ \A j \in 1..Len(tr_segments) :
                    tr_segments[j] =
                      Segment(tr_words[lo[j]].start, tr_words[hi[j]].end,
                              _join_words(SubSeq(tr_words, lo[j], hi[j])))
       /\ n = 1 =>
            tr_segments = <<Segment(tr_words[1].start, tr_words[1].end,
                                    tr_words[1].word)>>

\* three words have been segmented into a segment of two words and a
\* segment of one
C31_Witness ==
  /\ tpc = "done"
  /\ Len(tr_words) = 3
  /\ Len(tr_segments) = 2
  /\ tr_segments[1].end = tr_words[2].end
  /\ tr_segments[2].start = tr_words[3].start
  /\ tr_segments[1].text = _join_words(SubSeq(tr_words, 1, 2))

\* audio recognized in one piece whose result carries no timestamps: the
\* words are those of _fallback_words(raw_text, duration)
FallbackCase ==
  /\ tpc \in {"segment", "done"}
  /\ asr.duration <= Max(asr.chunk_length_ms, 1000)
  /\ asr.results[1].timestamps = <<>>

\* fragment i of n (from 1) spans duration * (i - 1) / n to duration * i / n
EvenSpan(w, i, n, dur) == w.start * n = dur * (i - 1) /\ w.end * n = dur * i

\* C32 as stated: the fallback gives fragment i of the n fragments of the
\* text the span from duration * i / n to duration * (i + 1) / n, and
\* with a duration of zero every fragment has start = end
C32_ZeroLengthPlaceholders ==
  FallbackCase =>
    LET parts == findall(tr_raw_text)
        n == Len(parts)
    IN /\ Len(tr_words) = n
       /\ \A i \in 1..n :
            /\ tr_words[i].word = parts[i]
            /\ IF asr.duration > 0
                 THEN EvenSpan(tr_words[i], i, n, asr.duration)
                 ELSE tr_words[i].start = tr_words[i].end

\* C32, amended: the fallback gives fragment i of the n fragments of the
\* text the span from duration * i / n to duration * (i + 1) / n, and
\* with a duration of zero every fragment spans 0 to 0.05 s
C32_FallbackSpans ==
  FallbackCase =>
    LET parts == findall(tr_raw_text)
        n == Len(parts)
    IN /\ Len(tr_words) = n
       /\ \A i \in 1..n :
            /\ tr_words[i].word = parts[i]
            /\ IF asr.duration > 0
                 THEN EvenSpan(tr_words[i], i, n, asr.duration)
                 ELSE tr_words[i].start = 0 /\ tr_words[i].end = MIN_WORD_MS

\* a text of two or more fragments with no timestamps and a duration of
\* zero has been given its words
C32_Witness ==
  /\ FallbackCase
  /\ asr.duration = 0
  /\ Len(findall(tr_raw_text)) >= 2
  /\ Len(tr_words) = Len(findall(tr_raw_text))
  /\ \A i \in 1..Len(tr_words) : tr_words[i].end = MIN_WORD_MS

\* C33: when a transcribe call has ended, by returning or by raising, no
\* file of a piece it exported is on disk
C33_NoChunkFileLeft ==
  cpc \in {"returned", "raised"} => chunk_files = {}

\* a call whose second piece was being exported or recognized when the
\* exception was raised has ended, with the paths of both pieces in
\* temp_paths
C33_Witness ==
  /\ cpc = "raised"
  /\ temp_paths = <<0, 1>>
  /\ chunk_index = 1
  /\ chunk_files = {}

\* C34: the list merge_with_transcription returns has the length and the
\* order of the transcription segments; the segment at each index has the
\* start, end and text of the input segment at that index and, besides
\* them, only the speaker; the call leaves its input as it was
C34_MergeKeepsSegments ==
  /\ [](mpc = "done" =>
          /\ Len(mg_merged) = Len(mg_segments)
          /\ \A i \in 1..Len(mg_segments) :
               /\ DOMAIN mg_merged[i] = DOMAIN mg_segments[i] \cup {"speaker"}
               /\ \A f \in DOMAIN mg_segments[i] :
                    mg_merged[i][f] = mg_segments[i][f])
  /\ [][mg_segments' = mg_segments /\ mg_speakers' = mg_speakers]_vars

\* two different segments, the first without any overlapping turn and
\* the second with one, have been labelled
C34_Witness ==
  /\ mpc = "done"
  /\ Len(mg_segments) = 2
  /\ mg_segments[1] # mg_segments[2]
  /\ Len(mg_merged) = 2
  /\ mg_merged[1].speaker = UNKNOWN
  /\ mg_merged[2].speaker # UNKNOWN

\* C35: a poll for a task id that neither the store nor the persistence
\* store knows is answered 404, and so is a poll for a task whose record
\* is neither pending, processing nor failed and that has no completed row
C35_UnknownTaskNotFound ==
  \A t \in TaskIds :
    /\ (t \notin DOMAIN tasks /\ ~stub[t])
         => get_status(tasks, stub, t).code = 404
    /\ ( /\ t \in DOMAIN tasks
         /\ tasks[t].status \notin {"pending", "processing", "failed"}
         /\ _get_completed_row(stub, t) = NoRow )
         => get_status(tasks, stub, t).code = 404

\* C36: a job whose enqueue returned True is executed; once stop() has
\* returned, and no worker loop is left to take anything, no job is
\* still in the queue and every accepted job has been taken by a worker
C36_AcceptedJobExecuted ==
  stop_pc = "returned" =>
    /\ \A i \in 1..Len(queue) : queue[i] = Sentinel
    /\ \A i \in 1..Len(accepted) :
         \E j \in 1..Len(started) : started[j] = accepted[i]

\* C37: a stop() that has begun to put its sentinels returns in the end,
\* whether or not its puts had to wait for room; a stop() called while
\* no worker task exists returns at once and puts no sentinel
C37_StopReturns ==
  /\ (stop_pc \in {"putting", "gather"}) ~> (stop_pc = "returned")
  /\ [][(stop_pc = "idle" /\ worker_tasks = {} /\ stop_pc' # "idle")
          => /\ stop_pc' = "returned"
             /\ sentinels' = sentinels
             /\ queue' = queue]_vars

\* stop() was called while the queue was full of jobs: it has put no
\* sentinel yet and waits for room
C37_Witness ==
  /\ stop_pc = "putting"
  /\ sentinels = 0
  /\ Len(queue) = maxsize
  /\ \A i \in 1..Len(queue) : queue[i] # Sentinel
  /\ LiveWorkers # {}

\* C38 as stated: the progress of a task never goes down, retries included
C38_ProgressNonDecreasing ==
  [][\A t \in DOMAIN tasks :
       t \in DOMAIN tasks' => tasks'[t].progress >= tasks[t].progress]_vars

\* C38, amended: the progress of a task goes down only when an attempt
\* after the first one begins, and then to 10; within an attempt, and
\* from the end of an attempt to the retry label and the delay, it never
\* goes down
C38_ProgressDropsOnRetryOnly ==
  [][\A t \in DOMAIN tasks :
       (t \in DOMAIN tasks' /\ tasks'[t].progress < tasks[t].progress)
         => /\ tasks'[t].progress = PROGRESS_INIT
            /\ tasks'[t].status = "processing"
            /\ attempts[t] >= 1
            /\ attempts'[t] = attempts[t] + 1
            /\ delays[t] = attempts[t]]_vars

\* the second attempt of a task has begun after the first one failed at
\* the transcription step, where the progress was 30: it is 10 again
C38_Witness ==
  \E t \in DOMAIN tasks :
    /\ tasks[t].status = "processing"
    /\ tasks[t].progress = PROGRESS_INIT
    /\ tasks[t].progress < PROGRESS_TRANSCRIBING
    /\ attempts[t] = 2
    /\ lastExc[t] = MsgTranscribe

C40_SegmentsDisjoint ==
  tpc = "done" =>
    \A j \in 1..(Len(tr_segments) - 1) :
      tr_segments[j].end <= tr_segments[j + 1].start

====
